---- MODULE Spec2Model ----
(***************************************************************************)
(* Cadabra: SQL query cache with automatic invalidation.                   *)
(* A model of packages/cadabra/cadabra.ts: the fingerprint                 *)
(* (generateFingerprint), the write analysis (analyzeWrite), the           *)
(* invalidation decider (shouldInvalidate and its sub-analyses), the       *)
(* SQLite-backed CacheManager with its four index tables and its LRU       *)
(* front, and the read-through application of                              *)
(* packages/integration-tests/app.ts.                                      *)
(***************************************************************************)
EXTENDS Integers, Sequences, FiniteSets, TLC

VARIABLES
  cache_entries,    \* cache_entries table: fingerprint -> [result, cache_key]
  table_index,      \* table_index rows     <<table_name, fingerprint>>
  row_index,        \* row_index rows       <<table_name, row_id, fingerprint>>
  column_index,     \* column_index rows    <<table_name, column_name, fingerprint>>
  aggregate_index,  \* aggregate_index rows <<table_name, fingerprint>>
  lruCache,         \* the Map lruCache, in insertion order: Seq of [fp, result]
  appDb,            \* the application's own database (app.ts _db): the users rows
  last              \* the last public call and what it returned

vars == <<cache_entries, table_index, row_index, column_index,
          aggregate_index, lruCache, appDb, last>>

storeVars == <<cache_entries, table_index, row_index, column_index,
               aggregate_index, lruCache>>

(***************************************************************************)
(* Bounds of the model.                                                    *)
(***************************************************************************)
\* Literal values and cell values range over 1..MaxVal.
MaxVal == 2
\* Results handed to register are the numbers 1..MaxResult.
MaxResult == 2
\* Capacity of the LRU front: LRU_MAX_SIZE (1000 in the source) scaled to
\* the model so that eviction happens.
LRU_MAX_SIZE == 2

(***************************************************************************)
(* JavaScript values as they appear in Condition.value and affectedRows.   *)
(*   number n          the number n                                        *)
(*   string n          the string holding the decimal numeral of n ('7')   *)
(*   text n            the non-numeric string '202n-01-01'                 *)
(*   array             a list of the above                                 *)
(***************************************************************************)
Num(n) == [t |-> "number", n |-> n, items |-> <<>>]
Str(n) == [t |-> "string", n |-> n, items |-> <<>>]
Text(n) == [t |-> "text", n |-> n, items |-> <<>>]
Arr(s) == [t |-> "array", n |-> 0, items |-> s]

IsArray(v) == v.t = "array"

\* The characters of the decimal numeral of n (0 <= n <= 99), as char codes.
Digits(n) == IF n < 10 THEN <<48 + n>> ELSE <<48 + (n \div 10), 48 + (n % 10)>>

\* String(v) as characters.  '202n-01-01' for text n.
Chars(v) ==
  IF v.t = "text"
    THEN <<50, 48, 50, 48 + v.n, 45, 48, 49, 45, 48, 49>>
    ELSE Digits(v.n)

\* String(v): a number becomes its numeral, a string stays, an array
\* becomes its elements' strings joined by commas (a one-element array the
\* string of its element).
String(v) ==
  IF v.t = "number" THEN Str(v.n)
  ELSE IF v.t = "array"
    THEN IF Len(v.items) = 1
           THEN (IF v.items[1].t = "number" THEN Str(v.items[1].n) ELSE v.items[1])
           ELSE [t |-> "joined", n |-> 0,
                 items |-> [i \in 1..Len(v.items) |->
                              IF v.items[i].t = "number"
                                THEN Str(v.items[i].n) ELSE v.items[i]]]
  ELSE v

\* Lexicographic order on character sequences (JavaScript string <).
RECURSIVE LexLess(_, _)
LexLess(a, b) ==
  IF b = <<>> THEN FALSE
  ELSE IF a = <<>> THEN TRUE
  ELSE IF Head(a) < Head(b) THEN TRUE
  ELSE IF Head(a) > Head(b) THEN FALSE
  ELSE LexLess(Tail(a), Tail(b))

\* JavaScript a > b on scalars: two strings compare as strings, otherwise
\* both sides convert to numbers and a NaN makes the comparison false.
JsGreater(a, b) ==
  IF a.t # "number" /\ b.t # "number"
    THEN LexLess(Chars(b), Chars(a))
    ELSE IF a.t = "text" \/ b.t = "text" THEN FALSE ELSE a.n > b.n

\* The comparison Array.prototype.sort() uses without a comparator:
\* String(a) < String(b).
SortLess(a, b) == LexLess(Chars(a), Chars(b))

\* Insertion of x into a sequence sorted by Less, after its equals (stable).
InsertSorted(x, s, Less(_, _)) ==
  LET before == {j \in 1..Len(s) : Less(x, s[j])}
      k == IF before = {} THEN Len(s) + 1
           ELSE CHOOSE j \in before : \A i \in before : j <= i
  IN SubSeq(s, 1, k - 1) \o <<x>> \o SubSeq(s, k, Len(s))

\* A stable sort of s by Less.
SortBy(s, Less(_, _)) ==
  LET F[i \in 0..Len(s)] ==
        IF i = 0 THEN <<>> ELSE InsertSorted(s[i], F[i - 1], Less)
  IN F[Len(s)]

Range(s) == {s[i] : i \in 1..Len(s)}

SeqContains(s, x) == \E i \in 1..Len(s) : s[i] = x

\* s.map(f)
SeqMap(s, f(_)) == [i \in 1..Len(s) |-> f(s[i])]

\* s.filter(p)
SeqFilter(s, p(_)) ==
  LET F[i \in 0..Len(s)] ==
        IF i = 0 THEN <<>>
        ELSE IF p(s[i]) THEN Append(F[i - 1], s[i]) ELSE F[i - 1]
  IN F[Len(s)]

(***************************************************************************)
(* Strings of the model: table names, column names and select-list         *)
(* entries.  StringOrder lists them by UTF-16 code units, the order of     *)
(* JavaScript's string comparison (and of localeCompare on the lower-case  *)
(* identifiers).                                                           *)
(***************************************************************************)
StringOrder ==
  <<"*", "COUNT(*)", "COUNT(age)", "COUNT(id)", "SUM(age)",
    "age", "created_at", "id", "name", "orders", "total", "user_id", "users">>

StrIndex(x) == CHOOSE i \in 1..Len(StringOrder) : StringOrder[i] = x

StrGreater(a, b) == StrIndex(a) > StrIndex(b)

\* a.localeCompare(b) < 0
LocaleLess(a, b) == StrIndex(a) < StrIndex(b)

\* `${name}(${argCol})`
AggrString(name, argCol) ==
  CASE name = "COUNT" /\ argCol = "*" -> "COUNT(*)"
    [] name = "COUNT" /\ argCol = "age" -> "COUNT(age)"
    [] name = "COUNT" /\ argCol = "id" -> "COUNT(id)"
    [] name = "SUM" /\ argCol = "age" -> "SUM(age)"

\* sc.includes("(") ? sc.split("(")[1]?.split(")")[0] : sc
BaseColumn(sc) ==
  CASE sc = "COUNT(*)" -> "*"
    [] sc = "COUNT(age)" -> "age"
    [] sc = "COUNT(id)" -> "id"
    [] sc = "SUM(age)" -> "age"
    [] OTHER -> sc

(***************************************************************************)
(* SECTION 4: AST EXTRACTION.  A parsed SELECT is                          *)
(*   [columns, from, where, orderby, limit, offset, distinct, subquery,    *)
(*    setOp]                                                               *)
(* with columns a list of [type, table, column, name] expressions, from a  *)
(* list of [table, as, join, hasOn, on] items and where a chain            *)
(* [conn, conds] of leaf conditions joined by AND or by OR.                *)
(***************************************************************************)
Cond(column, operator, value) ==
  [column |-> column, operator |-> operator, value |-> value]

\* The WHERE tree flattened by concatenation: AND and OR alike.
parseConditionNode(where) == where.conds

extractConditions(ast) == parseConditionNode(ast.where)

\* One select-list expression as a column string.
ColumnString(col) ==
  IF col.type = "aggr_func" THEN AggrString(col.name, col.column)
  ELSE col.column

extractColumns(ast) == SeqMap(ast.columns, ColumnString)

\* The equi-join of an ON clause; the table of an unqualified side falls
\* back to the previous (left) or current (right) table.
extractJoinCondition(on, leftTable, rightTable, joinType) ==
  [leftTable |-> IF on.leftTable # "" THEN on.leftTable ELSE leftTable,
   leftColumn |-> on.leftColumn,
   rightTable |-> IF on.rightTable # "" THEN on.rightTable ELSE rightTable,
   rightColumn |-> on.rightColumn,
   joinType |-> joinType]

\* The join conditions of the FROM items, in order.
JoinConditionsOf(from) ==
  LET F[i \in 0..Len(from)] ==
        IF i = 0 THEN <<>>
        ELSE IF from[i].table # "" /\ from[i].join # "" /\ from[i].hasOn
          THEN Append(F[i - 1],
                      extractJoinCondition(from[i].on,
                        IF i > 1 THEN from[i - 1].table ELSE from[1].table,
                        from[i].table, from[i].join))
          ELSE F[i - 1]
  IN F[Len(from)]

\* The FROM items that name a table; a derived table (a subquery in FROM)
\* has no table member and is skipped.
TableItems(from) == SeqFilter(from, LAMBDA fromItem : fromItem.table # "")

\* One TableAccess per FROM item that names a table; the join conditions
\* go to the first.  No FROM clause gives no table.
extractTables(ast) ==
  [i \in 1..Len(TableItems(ast.from)) |->
     [table |-> TableItems(ast.from)[i].table,
      alias |-> TableItems(ast.from)[i].as,
      columns |-> <<>>,
      hasConditions |-> FALSE,
      conditions |-> <<>>,
      joinConditions |-> IF i = 1 THEN JoinConditionsOf(ast.from) ELSE <<>>]]

extractAggregates(ast) ==
  SeqFilter(ast.columns, LAMBDA col : col.type = "aggr_func")

(***************************************************************************)
(* SECTION 5: QUERY CLASSIFICATION                                         *)
(***************************************************************************)
\* ["id", "uuid"].includes(c.column.toLowerCase()); the identifiers of the
\* model are lower case already.
IsPKColumn(c) == c.column \in {"id", "uuid"}

IsSimplePK(c) == IsPKColumn(c) /\ c.operator \in {"=", "IN"}

hasSimplePKCondition(conditions) ==
  \E i \in 1..Len(conditions) : IsSimplePK(conditions[i])

classifyQuery(tables, conditions, hasAggregates, hasSubquery, hasSetOperation) ==
  IF hasSetOperation THEN "complex"
  ELSE IF hasSubquery THEN "complex"
  ELSE IF hasAggregates THEN "aggregate"
  ELSE IF Len(tables) > 1 THEN "join"
  ELSE IF hasSimplePKCondition(conditions) THEN "row-lookup"
  ELSE "complex"

(***************************************************************************)
(* SECTION 6: CACHE KEY GENERATION                                         *)
(***************************************************************************)
\* sortIfNeeded: arrays of up to one element as they are, two elements
\* swapped when a > b, three or more copied and sorted with the default
\* (string) comparison.
sortIfNeeded(arr, Greater(_, _), Less(_, _)) ==
  IF Len(arr) <= 1 THEN arr
  ELSE IF Len(arr) = 2
    THEN IF Greater(arr[1], arr[2]) THEN <<arr[2], arr[1]>> ELSE arr
  ELSE SortBy(arr, Less)

\* parts.join(","): the characters of the parts with commas between.
JoinChars(parts) ==
  LET F[i \in 0..Len(parts)] ==
        IF i = 0 THEN <<>>
        ELSE IF i = 1 THEN Chars(parts[1])
        ELSE F[i - 1] \o <<44>> \o Chars(parts[i])
  IN F[Len(parts)]

\* The first condition on id/uuid with = or IN (Array.find); <<>> if none.
FindPKCondition(conditions) ==
  SeqFilter(conditions, IsSimplePK)

\* The object generateFingerprint serializes with JSON.stringify: undefined
\* members (conditions of a non-anchor table, an absent orderBy, limit,
\* offset, distinct, hasSubquery or setOperation) are left out of the JSON
\* text, which the model writes as hasX = FALSE or the absent value.
NormalizedTable(t) ==
  [table |-> t.table,
   columns |-> sortIfNeeded(t.columns, StrGreater, LAMBDA a, b : StrGreater(b, a)),
   hasConditions |-> t.hasConditions,
   conditions |->
     SortBy([i \in 1..Len(t.conditions) |->
               [column |-> t.conditions[i].column,
                operator |-> t.conditions[i].operator,
                value |-> IF IsArray(t.conditions[i].value)
                            THEN Arr(sortIfNeeded(t.conditions[i].value.items,
                                                  JsGreater, SortLess))
                            ELSE t.conditions[i].value]],
            LAMBDA a, b : LocaleLess(a.column, b.column)),
   joinConditions |->
     SortBy(t.joinConditions, LAMBDA a, b : LocaleLess(a.leftTable, b.leftTable))]

Normalized(cacheKey) ==
  [tables |-> SeqMap(cacheKey.tables, NormalizedTable),
   classification |-> cacheKey.classification,
   orderBy |-> cacheKey.orderBy,
   limit |-> cacheKey.limit,
   offset |-> cacheKey.offset,
   distinct |-> cacheKey.distinct,
   hasSubquery |-> cacheKey.hasSubquery,
   setOperation |-> cacheKey.setOperation]

\* "Absent" members of a CacheKey: orderBy <<>>, limit and offset NoNumber,
\* distinct and hasSubquery FALSE (the analysis stores `x || undefined`),
\* setOperation "".
NoNumber == -1

\* !limit, !offset: undefined and 0 are both falsy.
Falsy(n) == n = NoNumber \/ n = 0

\* generateFingerprint: the readable form for a simple row lookup, the
\* first 16 hex digits of the SHA-256 of the normalized structure otherwise
\* (the hash is taken to be injective on the JSON texts).
generateFingerprint(cacheKey) ==
  LET table == cacheKey.tables[1]
      pk == IF Len(cacheKey.tables) >= 1 /\ table.hasConditions
              THEN FindPKCondition(table.conditions) ELSE <<>>
      readable ==
        /\ cacheKey.classification = "row-lookup"
        /\ Len(cacheKey.tables) = 1
        /\ cacheKey.orderBy = <<>>
        /\ Falsy(cacheKey.limit)
        /\ Falsy(cacheKey.offset)
        /\ ~cacheKey.distinct
        /\ ~cacheKey.hasSubquery
        /\ cacheKey.setOperation = ""
        /\ pk # <<>>
  IN IF readable
       THEN [form |-> "readable",
             table |-> table.table,
             column |-> pk[1].column,
             value |-> IF pk[1].operator = "IN" /\ IsArray(pk[1].value)
                         THEN JoinChars(SortBy(pk[1].value.items, SortLess))
                         ELSE Chars(pk[1].value)]
       ELSE [form |-> "sha256", json |-> Normalized(cacheKey)]

\* analyzeSELECT, from the parsed statement on: extract, attach columns and
\* conditions to the tables, classify, fingerprint.
AttachSingle(tables, columns, conditions) ==
  [i \in 1..Len(tables) |->
     [tables[i] EXCEPT !.columns = columns,
                       !.hasConditions = TRUE,
                       !.conditions = conditions]]

\* The select-list entries that go to table i of a multi-table query:
\* qualified column references to the table of that alias or name,
\* unqualified ones and aggregates to the first table.
ColumnsForTable(ast, tables, i) ==
  LET target(col) ==
        IF col.type = "aggr_func" THEN 1
        ELSE IF col.table = "" THEN 1
        ELSE LET hits == {j \in 1..Len(tables) :
                            tables[j].alias = col.table \/ tables[j].table = col.table}
             IN IF hits = {} THEN 0
                ELSE CHOOSE j \in hits : \A h \in hits : j <= h
  IN SeqMap(SeqFilter(ast.columns, LAMBDA col : target(col) = i), ColumnString)

AttachMulti(ast, tables, conditions) ==
  [i \in 1..Len(tables) |->
     [tables[i] EXCEPT !.columns = ColumnsForTable(ast, tables, i),
                       !.hasConditions = (i = 1),
                       !.conditions = IF i = 1 THEN conditions ELSE <<>>]]

analyzeSELECT(ast) ==
  LET tables0 == extractTables(ast)
      columns == extractColumns(ast)
      conditions == extractConditions(ast)
      tables == IF Len(tables0) = 1
                  THEN AttachSingle(tables0, columns, conditions)
                  ELSE AttachMulti(ast, tables0, conditions)
      key == [tables |-> tables,
              classification |->
                classifyQuery(tables, conditions,
                              Len(extractAggregates(ast)) > 0,
                              ast.subquery, ast.setOp # ""),
              orderBy |-> ast.orderby,
              limit |-> ast.limit,
              offset |-> ast.offset,
              distinct |-> ast.distinct,
              hasSubquery |-> ast.subquery,
              setOperation |-> ast.setOp,
              fingerprint |-> ""]
  IN [tables |-> key.tables,
      classification |-> key.classification,
      orderBy |-> key.orderBy,
      limit |-> key.limit,
      offset |-> key.offset,
      distinct |-> key.distinct,
      hasSubquery |-> key.hasSubquery,
      setOperation |-> key.setOperation,
      fingerprint |-> generateFingerprint(key)]

(***************************************************************************)
(* SECTION 7: INVALIDATION ANALYSIS.  A parsed write statement is          *)
(*   [type, table, where, set]                                             *)
(* with type the parser's statement type, table "" when the statement has  *)
(* no table member, where as for a SELECT and set a list of                *)
(* [column, value] assignments (UPDATE).                                   *)
(***************************************************************************)
\* String(typeField).toUpperCase()
ToUpperCase(type) ==
  CASE type = "insert" -> "INSERT"
    [] type = "update" -> "UPDATE"
    [] type = "delete" -> "DELETE"
    [] type = "replace" -> "REPLACE"
    [] type = "select" -> "SELECT"

IsSpecific(c) == c.operator = "=" \/ c.operator = "IN"

\* The strings pushed for one =/IN condition.
RowsOfCondition(c) ==
  IF c.operator = "=" THEN <<String(c.value)>>
  ELSE IF c.operator = "IN" /\ IsArray(c.value)
    THEN SeqMap(c.value.items, String)
  ELSE <<>>

\* extractAffectedRows: the values of every = and IN condition of the
\* WHERE clause, on any column, as strings; <<>> stands for undefined.
extractAffectedRows(ast) ==
  LET specificConditions == SeqFilter(parseConditionNode(ast.where), IsSpecific)
      F[i \in 0..Len(specificConditions)] ==
        IF i = 0 THEN <<>>
        ELSE F[i - 1] \o RowsOfCondition(specificConditions[i])
  IN F[Len(specificConditions)]

extractModifiedColumns(ast) == SeqMap(ast.set, LAMBDA a : a.column)

\* analyzeWrite, from the parsed statement on.  affectedRows and
\* modifiedColumns may be undefined (hasX = FALSE); conditions is always an
\* array.
analyzeWrite(ast) ==
  LET operation == ToUpperCase(ast.type)
      rows == extractAffectedRows(ast)
  IN [table |-> IF ast.table # "" THEN ast.table ELSE "unknown",
      operation |-> operation,
      hasAffectedRows |-> rows # <<>>,
      affectedRows |-> rows,
      hasModifiedColumns |-> operation = "UPDATE",
      modifiedColumns |-> IF operation = "UPDATE"
                            THEN extractModifiedColumns(ast) ELSE <<>>,
      conditions |-> extractConditions(ast)]

(***************************************************************************)
(* SECTION 8: INVALIDATION MATCHING                                        *)
(***************************************************************************)
\* Every write is taken to touch the cached rows.
rowsOverlapAlways(cacheKey, affectedRows) == TRUE

\* rowsOverlap: some =/IN value of the first cached table, as a string, is
\* among the affected rows; true when there is no such condition.
rowsOverlap(cacheKey, affectedRows) ==
  LET table == cacheKey.tables[1]
      specificConditions == SeqFilter(table.conditions, IsSpecific)
  IN IF Len(cacheKey.tables) = 0 \/ ~table.hasConditions THEN TRUE
     ELSE IF specificConditions = <<>> THEN TRUE
     ELSE \E i \in 1..Len(specificConditions) :
            LET cond == specificConditions[i]
            IN IF cond.operator = "="
                 THEN SeqContains(affectedRows, String(cond.value))
                 ELSE /\ IsArray(cond.value)
                      /\ \E j \in 1..Len(cond.value.items) :
                           SeqContains(affectedRows, String(cond.value.items[j]))

\* Every write is taken to touch the selected columns.
columnsOverlapAlways(selectedColumns, modifiedColumns) == TRUE

\* columnsOverlap: "*" is selected, or a selected column without its
\* aggregate wrapper is modified.
columnsOverlap(selectedColumns, modifiedColumns) ==
  IF SeqContains(selectedColumns, "*") THEN TRUE
  ELSE \E i \in 1..Len(selectedColumns) :
         SeqContains(modifiedColumns, BaseColumn(selectedColumns[i]))

\* tableMap.get(ref) || ref: later tables overwrite earlier map entries.
ResolveTable(cacheKey, ref) ==
  LET hits == {i \in 1..Len(cacheKey.tables) :
                 \/ cacheKey.tables[i].table = ref
                 \/ (cacheKey.tables[i].alias # "" /\ cacheKey.tables[i].alias = ref)}
  IN IF hits = {} THEN ref
     ELSE cacheKey.tables[CHOOSE i \in hits : \A h \in hits : h <= i].table

\* Every write is taken to touch a join condition.
affectsJoinConditionsAlways(cacheKey, modifiedTable, modifiedColumns) == TRUE

\* No write is taken to touch a join condition.
affectsJoinConditionsNever(cacheKey, modifiedTable, modifiedColumns) == FALSE

\* affectsJoinConditions: a modified column is the left or right column of a
\* join condition of the first table whose side resolves to the written
\* table.
affectsJoinConditions(cacheKey, modifiedTable, modifiedColumns) ==
  LET joinConditions == cacheKey.tables[1].joinConditions
  IN /\ Len(cacheKey.tables) >= 1
     /\ \E i \in 1..Len(joinConditions) :
          LET jc == joinConditions[i]
          IN \/ /\ ResolveTable(cacheKey, jc.leftTable) = modifiedTable
                /\ SeqContains(modifiedColumns, jc.leftColumn)
             \/ /\ ResolveTable(cacheKey, jc.rightTable) = modifiedTable
                /\ SeqContains(modifiedColumns, jc.rightColumn)

\* isNumeric: a number, or a string that Number() does not turn into NaN.
isNumeric(val) == val.t \in {"number", "string"}

\* getNumValue: [has, v]; has = FALSE stands for null.
NoBound == [has |-> FALSE, v |-> 0]

Bound(n) == [has |-> TRUE, v |-> n]

getNumValue(val) == IF isNumeric(val) THEN Bound(val.n) ELSE NoBound

\* cond.value.map(getNumValue).filter(v => v !== null), as a set.
NumValues(value) ==
  {value.items[i].n : i \in {j \in 1..Len(value.items) : isNumeric(value.items[j])}}

SetMin(S) == CHOOSE x \in S : \A y \in S : x <= y

SetMax(S) == CHOOSE x \in S : \A y \in S : x >= y

\* The range [min, max] with its inclusivity flags that rangesOverlap
\* extracts from one condition.
ExtractRange(cond) ==
  LET none == [min |-> NoBound, max |-> NoBound, minInclusive |-> TRUE,
               maxInclusive |-> TRUE]
  IN IF cond.operator = "=" /\ isNumeric(cond.value)
       THEN [none EXCEPT !.min = getNumValue(cond.value),
                         !.max = getNumValue(cond.value)]
     ELSE IF cond.operator = ">" /\ isNumeric(cond.value)
       THEN [none EXCEPT !.min = getNumValue(cond.value), !.minInclusive = FALSE]
     ELSE IF cond.operator = ">=" /\ isNumeric(cond.value)
       THEN [none EXCEPT !.min = getNumValue(cond.value)]
     ELSE IF cond.operator = "<" /\ isNumeric(cond.value)
       THEN [none EXCEPT !.max = getNumValue(cond.value), !.maxInclusive = FALSE]
     ELSE IF cond.operator = "<=" /\ isNumeric(cond.value)
       THEN [none EXCEPT !.max = getNumValue(cond.value)]
     ELSE IF cond.operator = "BETWEEN" /\ IsArray(cond.value)
             /\ Len(cond.value.items) = 2
       THEN [none EXCEPT !.min = getNumValue(cond.value.items[1]),
                         !.max = getNumValue(cond.value.items[2])]
     ELSE IF cond.operator = "IN" /\ IsArray(cond.value)
             /\ NumValues(cond.value) # {}
       THEN [none EXCEPT !.min = Bound(SetMin(NumValues(cond.value))),
                         !.max = Bound(SetMax(NumValues(cond.value)))]
     ELSE none

\* rangesOverlap: false only for provably disjoint conditions.  (The
\* IN-against-equality returns inside the range extraction are never
\* reached: the fast paths above them take those cases.)
rangesOverlap(cond1, cond2) ==
  IF cond1.column # cond2.column THEN TRUE
  ELSE IF cond1.operator = "=" /\ cond2.operator = "="
    THEN cond1.value = cond2.value
  ELSE IF cond1.operator = "IN" /\ cond2.operator = "=" /\ IsArray(cond1.value)
    THEN SeqContains(cond1.value.items, cond2.value)
  ELSE IF cond2.operator = "IN" /\ cond1.operator = "=" /\ IsArray(cond2.value)
    THEN SeqContains(cond2.value.items, cond1.value)
  ELSE IF /\ cond1.operator = "IN" /\ IsArray(cond1.value)
          /\ NumValues(cond1.value) # {}
          /\ cond2.operator = "IN" /\ IsArray(cond2.value)
    THEN NumValues(cond1.value) \cap NumValues(cond2.value) # {}
  ELSE
    LET c1 == ExtractRange(cond1)
        c2 == ExtractRange(cond2)
    IN IF ~c1.min.has /\ ~c1.max.has /\ ~c2.min.has /\ ~c2.max.has THEN TRUE
       ELSE IF c1.max.has /\ c2.min.has /\ c1.max.v < c2.min.v THEN FALSE
       ELSE IF c1.max.has /\ c2.min.has /\ c1.max.v = c2.min.v
               /\ ~(c1.maxInclusive /\ c2.minInclusive) THEN FALSE
       ELSE IF c1.min.has /\ c2.max.has /\ c1.min.v > c2.max.v THEN FALSE
       ELSE IF c1.min.has /\ c2.max.has /\ c1.min.v = c2.max.v
               /\ ~(c1.minInclusive /\ c2.maxInclusive) THEN FALSE
       ELSE TRUE

\* conditionsOverlap: false when a column carries conditions on both sides
\* and no cached condition on it overlaps any write condition on it.
conditionsOverlap(cacheConditions, writeConditions) ==
  \A i \in 1..Len(cacheConditions) :
    LET column == cacheConditions[i].column
        cacheConds == {c \in Range(cacheConditions) : c.column = column}
        writeConds == {c \in Range(writeConditions) : c.column = column}
    IN \/ writeConds = {}
       \/ \E cacheCond \in cacheConds, writeCond \in writeConds :
            rangesOverlap(cacheCond, writeCond)

\* cacheKey.tables.find(t => t.table === writeInfo.table), as indexes.
AffectedTables(cacheKey, writeInfo) ==
  {i \in 1..Len(cacheKey.tables) : cacheKey.tables[i].table = writeInfo.table}

shouldInvalidate(cacheKey, writeInfo) ==
  IF AffectedTables(cacheKey, writeInfo) = {} THEN FALSE
  ELSE
    LET affectedTable == cacheKey.tables[SetMin(AffectedTables(cacheKey, writeInfo))]
        bothConditions == affectedTable.hasConditions
                          /\ Len(affectedTable.conditions) > 0
        rowCheck == writeInfo.hasAffectedRows /\ affectedTable.hasConditions
    IN IF writeInfo.operation = "INSERT" THEN TRUE
       ELSE IF writeInfo.operation = "DELETE" THEN
         IF cacheKey.classification \in {"aggregate", "join"} THEN TRUE
         ELSE IF bothConditions
                 /\ ~conditionsOverlap(affectedTable.conditions, writeInfo.conditions)
           THEN FALSE
         ELSE IF rowCheck THEN rowsOverlap(cacheKey, writeInfo.affectedRows)
         ELSE TRUE
       ELSE IF writeInfo.hasModifiedColumns THEN
         LET hasColumnOverlap ==
               columnsOverlap(affectedTable.columns, writeInfo.modifiedColumns)
             hasJoinOverlap ==
               /\ cacheKey.classification = "join"
               /\ affectsJoinConditions(cacheKey, writeInfo.table,
                                        writeInfo.modifiedColumns)
         IN IF ~(hasColumnOverlap \/ hasJoinOverlap) THEN FALSE
            ELSE IF Len(writeInfo.conditions) > 0 /\ bothConditions
                    /\ ~conditionsOverlap(affectedTable.conditions,
                                          writeInfo.conditions)
              THEN FALSE
            ELSE IF cacheKey.classification = "join"
              THEN IF rowCheck /\ ~rowsOverlap(cacheKey, writeInfo.affectedRows)
                     THEN FALSE ELSE TRUE
            ELSE IF hasColumnOverlap
              THEN IF rowCheck THEN rowsOverlap(cacheKey, writeInfo.affectedRows)
                   ELSE TRUE
            ELSE FALSE
       ELSE IF Len(writeInfo.conditions) > 0 /\ bothConditions
               /\ ~conditionsOverlap(affectedTable.conditions, writeInfo.conditions)
         THEN FALSE
       ELSE IF rowCheck THEN rowsOverlap(cacheKey, writeInfo.affectedRows)
       ELSE TRUE

(***************************************************************************)
(* SECTION 9: SQLITE STORAGE.  The database of a CacheManager is the       *)
(* record of its five tables; a statement maps a database to a database.   *)
(***************************************************************************)
\* JSON.stringify / JSON.parse on the JSON values of the model: the text
\* is kept as a tagged copy of the value it denotes.
JSONStringify(v) == [json |-> v]

JSONParse(text) == text.json

\* null: what get returns for a miss.
Null == [t |-> "null"]

CurrentDb ==
  [cache_entries |-> cache_entries,
   table_index |-> table_index,
   row_index |-> row_index,
   column_index |-> column_index,
   aggregate_index |-> aggregate_index]

\* The prepared statements and the batch deletes, applied to a database.
Exec(d, stmt) ==
  CASE stmt.op = "insertCache" ->
         \* INSERT OR REPLACE INTO cache_entries
         [d EXCEPT !.cache_entries =
            [f \in DOMAIN d.cache_entries \cup {stmt.fingerprint} |->
               IF f = stmt.fingerprint
                 THEN [result |-> stmt.result, cache_key |-> stmt.cache_key]
                 ELSE d.cache_entries[f]]]
    [] stmt.op = "insertTableIndex" ->
         [d EXCEPT !.table_index = @ \cup {<<stmt.table, stmt.fingerprint>>}]
    [] stmt.op = "insertRowIndex" ->
         [d EXCEPT !.row_index = @ \cup {<<stmt.table, stmt.row_id, stmt.fingerprint>>}]
    [] stmt.op = "insertColumnIndex" ->
         [d EXCEPT !.column_index = @ \cup {<<stmt.table, stmt.column, stmt.fingerprint>>}]
    [] stmt.op = "insertAggregateIndex" ->
         [d EXCEPT !.aggregate_index = @ \cup {<<stmt.table, stmt.fingerprint>>}]
    [] stmt.op = "deleteCache" ->
         [d EXCEPT !.cache_entries =
            [f \in DOMAIN d.cache_entries \ stmt.fingerprints |-> d.cache_entries[f]]]
    [] stmt.op = "deleteTableIndex" ->
         [d EXCEPT !.table_index = {r \in @ : r[2] \notin stmt.fingerprints}]
    [] stmt.op = "deleteRowIndex" ->
         [d EXCEPT !.row_index = {r \in @ : r[3] \notin stmt.fingerprints}]
    [] stmt.op = "deleteColumnIndex" ->
         [d EXCEPT !.column_index = {r \in @ : r[3] \notin stmt.fingerprints}]
    [] stmt.op = "deleteAggregateIndex" ->
         [d EXCEPT !.aggregate_index = {r \in @ : r[2] \notin stmt.fingerprints}]

\* The database after the first n statements.
ExecPrefix(d, stmts, n) ==
  LET F[i \in 0..n] == IF i = 0 THEN d ELSE Exec(F[i - 1], stmts[i])
  IN F[n]

\* A catch block without its ROLLBACK: the statements run so far stay.
RollbackMissing(atBegin, working) == working

\* ROLLBACK: the database as it was at BEGIN.
Rollback(atBegin, working) == atBegin

\* BEGIN; the statements; COMMIT, inside try/catch with ROLLBACK and
\* rethrow.  failAt = 0: nothing fails.  failAt = i <= Len(stmts):
\* statement i throws.  failAt = Len(stmts) + 1: COMMIT throws.
RunTransaction(d, stmts, failAt) ==
  IF failAt = 0
    THEN [db |-> ExecPrefix(d, stmts, Len(stmts)), threw |-> FALSE]
    ELSE [db |-> Rollback(d, ExecPrefix(d, stmts, failAt - 1)), threw |-> TRUE]

\* The row ids register files a table under: the values of the first
\* condition on id/uuid, when the table has an =/IN condition on id/uuid.
RowIdsOf(table) ==
  IF table.hasConditions /\ hasSimplePKCondition(table.conditions)
    THEN LET pkCond == SeqFilter(table.conditions, IsPKColumn)[1]
         IN IF pkCond.operator = "IN" /\ IsArray(pkCond.value)
              THEN pkCond.value.items
              ELSE <<pkCond.value>>
    ELSE <<>>

\* The index inserts of register for one table.
TableStatements(fingerprint, cacheKey, table) ==
  <<[op |-> "insertTableIndex", table |-> table.table, fingerprint |-> fingerprint]>>
  \o [i \in 1..Len(RowIdsOf(table)) |->
        [op |-> "insertRowIndex", table |-> table.table,
         row_id |-> String(RowIdsOf(table)[i]), fingerprint |-> fingerprint]]
  \o (IF SeqContains(table.columns, "*") THEN <<>>
      ELSE [i \in 1..Len(table.columns) |->
              [op |-> "insertColumnIndex", table |-> table.table,
               column |-> BaseColumn(table.columns[i]),
               fingerprint |-> fingerprint]])
  \o (IF cacheKey.classification = "aggregate"
        THEN <<[op |-> "insertAggregateIndex", table |-> table.table,
                fingerprint |-> fingerprint]>>
        ELSE <<>>)

\* register storing the entry and none of its index rows.
RegisterStatementsNoIndexes(fingerprint, result, cacheKey) ==
  <<[op |-> "insertCache", fingerprint |-> fingerprint,
     result |-> JSONStringify(result),
     cache_key |-> JSONStringify(cacheKey)]>>

\* The statements of register, in order.
RegisterStatements(fingerprint, result, cacheKey) ==
  LET F[i \in 0..Len(cacheKey.tables)] ==
        IF i = 0
          THEN <<[op |-> "insertCache", fingerprint |-> fingerprint,
                  result |-> JSONStringify(result),
                  cache_key |-> JSONStringify(cacheKey)]>>
          ELSE F[i - 1] \o TableStatements(fingerprint, cacheKey, cacheKey.tables[i])
  IN F[Len(cacheKey.tables)]

\* register: [db, threw].  The LRU is not touched.
register(d, fingerprint, result, cacheKey, failAt) ==
  RunTransaction(d, RegisterStatements(fingerprint, result, cacheKey), failAt)

\* lruCache.get(fp): the positions holding fp (at most one).
LruPositions(lru, fingerprint) == {i \in 1..Len(lru) : lru[i].fp = fingerprint}

\* No eviction of the deleted fingerprints.
LruDeleteNothing(lru, fps) == lru

\* lruCache.delete(fp) for every fp of fps.
LruDelete(lru, fps) == SeqFilter(lru, LAMBDA e : e.fp \notin fps)

\* lruCache.set(fp, result) without the eviction.
LruInsertNoEviction(lru, fingerprint, result) ==
  Append(lru, [fp |-> fingerprint, result |-> result])

\* lruCache.set(fp, result), then the eviction of the key just set when the
\* size exceeds LRU_MAX_SIZE.
LruInsertEvictNewest(lru, fingerprint, result) ==
  LET added == Append(lru, [fp |-> fingerprint, result |-> result])
  IN IF Len(added) > LRU_MAX_SIZE THEN lru ELSE added

\* lruCache.set(fp, result), then the eviction of the first key when the
\* size exceeds LRU_MAX_SIZE.
LruInsert(lru, fingerprint, result) ==
  LET added == Append(lru, [fp |-> fingerprint, result |-> result])
  IN IF Len(added) > LRU_MAX_SIZE THEN Tail(added) ELSE added

\* get without the test for a missing row: reading row.result of no row
\* throws.
getWithoutRowCheck(d, lru, fingerprint) ==
  IF LruPositions(lru, fingerprint) # {}
    THEN [ret |-> lru[CHOOSE i \in LruPositions(lru, fingerprint) : TRUE].result,
          lru |-> lru, threw |-> FALSE]
  ELSE IF fingerprint \notin DOMAIN d.cache_entries
    THEN [ret |-> Null, lru |-> lru, threw |-> TRUE]
  ELSE LET result == JSONParse(d.cache_entries[fingerprint].result)
       IN [ret |-> result, lru |-> LruInsert(lru, fingerprint, result),
           threw |-> FALSE]

\* get: [ret, lru, threw].  The LRU answers first; on a miss there the row
\* is read, parsed and put into the LRU; no row gives null.
get(d, lru, fingerprint) ==
  IF LruPositions(lru, fingerprint) # {}
    THEN [ret |-> lru[CHOOSE i \in LruPositions(lru, fingerprint) : TRUE].result,
          lru |-> lru, threw |-> FALSE]
  ELSE IF fingerprint \notin DOMAIN d.cache_entries
    THEN [ret |-> Null, lru |-> lru, threw |-> FALSE]
  ELSE LET result == JSONParse(d.cache_entries[fingerprint].result)
       IN [ret |-> result, lru |-> LruInsert(lru, fingerprint, result),
           threw |-> FALSE]

\* Candidates of an INSERT taken from the aggregate index alone.
findAffectedInsertAggregatesOnly(d, writeInfo) ==
  LET byTable == {r[2] : r \in {x \in d.table_index : x[1] = writeInfo.table}}
      byAggregate == {r[2] : r \in {x \in d.aggregate_index : x[1] = writeInfo.table}}
  IN IF writeInfo.operation = "INSERT" THEN byAggregate ELSE byTable \cup byAggregate

\* Candidates of a write with affected rows taken from the row and column
\* indexes alone, without the table index.
findAffectedWithoutTableIndex(d, writeInfo) ==
  LET byTable == {r[2] : r \in {x \in d.table_index : x[1] = writeInfo.table}}
      byRow == {r[3] : r \in {x \in d.row_index :
                                x[1] = writeInfo.table
                                /\ SeqContains(writeInfo.affectedRows, x[2])}}
      byColumn == {r[3] : r \in {x \in d.column_index :
                                   x[1] = writeInfo.table
                                   /\ SeqContains(writeInfo.modifiedColumns, x[2])}}
  IN IF writeInfo.hasAffectedRows /\ Len(writeInfo.affectedRows) > 0
       THEN byRow \cup byColumn
       ELSE byTable

\* findAffectedFingerprints: the candidates read from the indexes.
findAffectedFingerprints(d, writeInfo) ==
  LET byTable == {r[2] : r \in {x \in d.table_index : x[1] = writeInfo.table}}
      byRow == {r[3] : r \in {x \in d.row_index :
                                x[1] = writeInfo.table
                                /\ SeqContains(writeInfo.affectedRows, x[2])}}
      byColumn == {r[3] : r \in {x \in d.column_index :
                                   x[1] = writeInfo.table
                                   /\ SeqContains(writeInfo.modifiedColumns, x[2])}}
      byAggregate == {r[2] : r \in {x \in d.aggregate_index : x[1] = writeInfo.table}}
  IN (IF writeInfo.hasAffectedRows /\ Len(writeInfo.affectedRows) > 0
        THEN byRow
             \cup (IF writeInfo.hasModifiedColumns /\ Len(writeInfo.modifiedColumns) > 0
                     THEN byColumn ELSE {})
             \cup byTable
        ELSE byTable)
     \cup (IF writeInfo.operation \in {"INSERT", "DELETE"} THEN byAggregate ELSE {})

\* getBatchCacheKeys: the stored cache keys of the candidates that have a
\* cache_entries row, parsed.
getBatchCacheKeys(d, fingerprints) ==
  [f \in fingerprints \cap DOMAIN d.cache_entries |->
     JSONParse(d.cache_entries[f].cache_key)]

\* Every candidate with a stored key is deleted, without asking
\* shouldInvalidate.
FingerprintsToDeleteUndecided(d, writeInfo) ==
  DOMAIN getBatchCacheKeys(d, findAffectedFingerprints(d, writeInfo))

\* The candidates shouldInvalidate decides to delete.
FingerprintsToDelete(d, writeInfo) ==
  LET cacheKeyMap == getBatchCacheKeys(d, findAffectedFingerprints(d, writeInfo))
  IN {f \in DOMAIN cacheKeyMap : shouldInvalidate(cacheKeyMap[f], writeInfo)}

\* The batch deletes without the one on cache_entries.
DeleteStatementsKeepEntries(fingerprints) ==
  <<[op |-> "deleteTableIndex", fingerprints |-> fingerprints],
    [op |-> "deleteRowIndex", fingerprints |-> fingerprints],
    [op |-> "deleteColumnIndex", fingerprints |-> fingerprints],
    [op |-> "deleteAggregateIndex", fingerprints |-> fingerprints]>>

\* The batch deletes without the one on column_index.
DeleteStatementsKeepColumns(fingerprints) ==
  <<[op |-> "deleteCache", fingerprints |-> fingerprints],
    [op |-> "deleteTableIndex", fingerprints |-> fingerprints],
    [op |-> "deleteRowIndex", fingerprints |-> fingerprints],
    [op |-> "deleteAggregateIndex", fingerprints |-> fingerprints]>>

\* The batch deletes without the one on table_index.
DeleteStatementsKeepTables(fingerprints) ==
  <<[op |-> "deleteCache", fingerprints |-> fingerprints],
    [op |-> "deleteRowIndex", fingerprints |-> fingerprints],
    [op |-> "deleteColumnIndex", fingerprints |-> fingerprints],
    [op |-> "deleteAggregateIndex", fingerprints |-> fingerprints]>>

\* The five batch deletes of invalidate and clearTable, in order.
DeleteStatements(fingerprints) ==
  <<[op |-> "deleteCache", fingerprints |-> fingerprints],
    [op |-> "deleteTableIndex", fingerprints |-> fingerprints],
    [op |-> "deleteRowIndex", fingerprints |-> fingerprints],
    [op |-> "deleteColumnIndex", fingerprints |-> fingerprints],
    [op |-> "deleteAggregateIndex", fingerprints |-> fingerprints]>>

\* The transaction without the LRU eviction that follows COMMIT.
DeleteBatchKeepLru(d, lru, fingerprints, failAt) ==
  LET tx == RunTransaction(d, DeleteStatements(fingerprints), failAt)
  IN IF tx.threw
       THEN [db |-> tx.db, lru |-> lru, ret |-> 0, threw |-> TRUE]
       ELSE [db |-> tx.db, lru |-> lru,
             ret |-> Cardinality(fingerprints), threw |-> FALSE]

\* The transaction of invalidate and clearTable, then the LRU eviction of
\* the deleted fingerprints: [db, lru, ret, threw].
DeleteBatch(d, lru, fingerprints, failAt) ==
  LET tx == RunTransaction(d, DeleteStatements(fingerprints), failAt)
  IN IF tx.threw
       THEN [db |-> tx.db, lru |-> lru, ret |-> 0, threw |-> TRUE]
       ELSE [db |-> tx.db, lru |-> LruDelete(lru, fingerprints),
             ret |-> Cardinality(fingerprints), threw |-> FALSE]

\* invalidate returning the number of candidates the indexes gave instead of
\* the number of fingerprints deleted.
invalidateReturnsCandidates(d, lru, writeInfo, failAt) ==
  LET fingerprintsToDelete == FingerprintsToDelete(d, writeInfo)
      batch == DeleteBatch(d, lru, fingerprintsToDelete, failAt)
  IN IF fingerprintsToDelete = {}
       THEN [db |-> d, lru |-> lru, ret |-> 0, threw |-> FALSE]
       ELSE [batch EXCEPT !.ret = IF batch.threw THEN 0
                                  ELSE Cardinality(findAffectedFingerprints(d, writeInfo))]

\* invalidate: [db, lru, ret, threw].
invalidate(d, lru, writeInfo, failAt) ==
  LET fingerprintsToDelete == FingerprintsToDelete(d, writeInfo)
  IN IF fingerprintsToDelete = {}
       THEN [db |-> d, lru |-> lru, ret |-> 0, threw |-> FALSE]
       ELSE DeleteBatch(d, lru, fingerprintsToDelete, failAt)

\* clearTable deleting the fingerprints of every table.
clearTableEveryTable(d, lru, tableName, failAt) ==
  LET fingerprints == {r[2] : r \in d.table_index}
  IN IF fingerprints = {}
       THEN [db |-> d, lru |-> lru, ret |-> 0, threw |-> FALSE]
       ELSE DeleteBatch(d, lru, fingerprints, failAt)

\* clearTable: [db, lru, ret, threw].
clearTable(d, lru, tableName, failAt) ==
  LET fingerprints == {r[2] : r \in {x \in d.table_index : x[1] = tableName}}
  IN IF fingerprints = {}
       THEN [db |-> d, lru |-> lru, ret |-> 0, threw |-> FALSE]
       ELSE DeleteBatch(d, lru, fingerprints, failAt)

(***************************************************************************)
(* Parsed statements the specifications draw their inputs from.            *)
(***************************************************************************)
Col(c) == [type |-> "column_ref", table |-> "", column |-> c, name |-> ""]

QCol(t, c) == [type |-> "column_ref", table |-> t, column |-> c, name |-> ""]

Aggr(name, c) == [type |-> "aggr_func", table |-> "", column |-> c, name |-> name]

NoOn == [leftTable |-> "", leftColumn |-> "", rightTable |-> "", rightColumn |-> ""]

From(t) == [table |-> t, as |-> "", join |-> "", hasOn |-> FALSE, on |-> NoOn]

FromAs(t, a) == [table |-> t, as |-> a, join |-> "", hasOn |-> FALSE, on |-> NoOn]

\* FROM (SELECT ...) a: an item with expr and no table.
Derived(a) == [table |-> "", as |-> a, join |-> "", hasOn |-> FALSE, on |-> NoOn]

JoinOn(t, a, lt, lc, rt, rc) ==
  [table |-> t, as |-> a, join |-> "INNER JOIN", hasOn |-> TRUE,
   on |-> [leftTable |-> lt, leftColumn |-> lc, rightTable |-> rt, rightColumn |-> rc]]

NoWhere == [conn |-> "AND", conds |-> <<>>]

Where(conn, conds) == [conn |-> conn, conds |-> conds]

Select(columns, from, where) ==
  [columns |-> columns, from |-> from, where |-> where, orderby |-> <<>>,
   limit |-> NoNumber, offset |-> NoNumber, distinct |-> FALSE,
   subquery |-> FALSE, setOp |-> ""]

Update(table, set, where) ==
  [type |-> "update", table |-> table, where |-> where, set |-> set]

Delete(table, where) ==
  [type |-> "delete", table |-> table, where |-> where, set |-> <<>>]

Insert(table) ==
  [type |-> "insert", table |-> table, where |-> NoWhere, set |-> <<>>]

Assign(column, n) == [column |-> column, value |-> Num(n)]

(***************************************************************************)
(* The application database (SQLite behind the read-through application):  *)
(* a record of tables, a table a set of rows, a row a record of integer    *)
(* cells.  users(id, name, age), orders(id, user_id, total); id is the     *)
(* primary key.                                                            *)
(***************************************************************************)
\* The index of the FROM item a qualifier (alias or table name) names.
SideIndex(from, ref) ==
  CHOOSE i \in 1..Len(from) : from[i].as = ref \/ from[i].table = ref

\* The cell of a joined row that a column reference denotes: the row of
\* the qualifier's table, or the first row that has the column.
ColValue(from, tuple, table, column) ==
  IF table # "" THEN tuple[SideIndex(from, table)][column]
  ELSE tuple[CHOOSE i \in 1..Len(tuple) :
               /\ column \in DOMAIN tuple[i]
               /\ \A j \in 1..(i - 1) : column \notin DOMAIN tuple[j]][column]

\* One leaf condition on a joined row.
CondHolds(from, tuple, c) ==
  LET v == ColValue(from, tuple, "", c.column)
  IN CASE c.operator = "=" -> v = c.value.n
       [] c.operator = "!=" -> v # c.value.n
       [] c.operator = ">" -> v > c.value.n
       [] c.operator = ">=" -> v >= c.value.n
       [] c.operator = "<" -> v < c.value.n
       [] c.operator = "<=" -> v <= c.value.n
       [] c.operator = "IN" ->
            \E i \in 1..Len(c.value.items) : v = c.value.items[i].n

\* The WHERE clause with its connective.
WhereHolds(from, tuple, where) ==
  IF where.conds = <<>> THEN TRUE
  ELSE IF where.conn = "AND"
    THEN \A i \in 1..Len(where.conds) : CondHolds(from, tuple, where.conds[i])
  ELSE \E i \in 1..Len(where.conds) : CondHolds(from, tuple, where.conds[i])

\* The rows of FROM: those of the table, or the pairs an inner join on an
\* equality matches.
FromRows(from, d) ==
  IF Len(from) = 1 THEN {<<r>> : r \in d[from[1].table]}
  ELSE LET on == from[2].on
       IN {t \in {<<a, b>> : a \in d[from[1].table], b \in d[from[2].table]} :
             ColValue(from, t, on.leftTable, on.leftColumn)
               = ColValue(from, t, on.rightTable, on.rightColumn)}

RECURSIVE SumOf(_, _, _)
SumOf(from, tuples, column) ==
  IF tuples = {} THEN 0
  ELSE LET t == CHOOSE x \in tuples : TRUE
       IN ColValue(from, t, "", column) + SumOf(from, tuples \ {t}, column)

\* The columns of the tables, in the order of their declaration.
Schema ==
  [users |-> <<"id", "name", "age">>, orders |-> <<"id", "user_id", "total">>]

\* One select-list expression on one row: the cells it yields (all the
\* cells of the joined row for *).
Cell(from, tuple, col) ==
  IF col.column = "*"
    THEN LET F[i \in 0..Len(tuple)] ==
               IF i = 0 THEN <<>>
               ELSE F[i - 1] \o [j \in 1..Len(Schema[from[i].table]) |->
                                   tuple[i][Schema[from[i].table][j]]]
         IN F[Len(tuple)]
    ELSE <<ColValue(from, tuple, col.table, col.column)>>

\* The result of a SELECT (no ORDER BY, LIMIT, OFFSET): the bag of its
\* result rows, or the one row of its aggregates.
Execute(ast, d) ==
  LET matching == {t \in FromRows(ast.from, d) : WhereHolds(ast.from, t, ast.where)}
      project(t) == [i \in 1..Len(ast.columns) |-> Cell(ast.from, t, ast.columns[i])]
      aggregate(col) ==
        IF col.name = "COUNT" THEN Cardinality(matching)
        ELSE SumOf(ast.from, matching, col.column)
  IN IF extractAggregates(ast) # <<>>
       THEN [t |-> "rows",
             rows |-> [r \in {[i \in 1..Len(ast.columns) |-> aggregate(ast.columns[i])]}
                         |-> 1]]
       ELSE [t |-> "rows",
             rows |-> [r \in {project(t) : t \in matching} |->
                         Cardinality({t \in matching : project(t) = r})]]

\* One row after the assignments of an UPDATE.
Assigned(row, set) ==
  [c \in DOMAIN row |->
     LET hits == {i \in 1..Len(set) : set[i].column = c}
     IN IF hits = {} THEN row[c]
        ELSE set[CHOOSE i \in hits : \A h \in hits : h <= i].value.n]

\* A write statement runs: an INSERT needs a fresh primary key.
Runs(stmt, d) ==
  stmt.type = "insert" => \A r \in d[stmt.table] : r.id # stmt.row.id

\* The database after a write statement.
Run(stmt, d) ==
  LET from == <<From(stmt.table)>>
      rows == d[stmt.table]
      hit(r) == WhereHolds(from, <<r>>, stmt.where)
  IN [d EXCEPT ![stmt.table] =
        CASE stmt.type = "insert" -> rows \cup {stmt.row}
          [] stmt.type = "delete" -> {r \in rows : ~hit(r)}
          [] stmt.type = "update" ->
               {IF hit(r) THEN Assigned(r, stmt.set) ELSE r : r \in rows}]

\* INSERT INTO table VALUES (row)
InsertRow(table, row) ==
  [type |-> "insert", table |-> table, where |-> NoWhere, set |-> <<>>,
   row |-> row]

User(id, name, age) == [id |-> id, name |-> name, age |-> age]

Order(id, user_id, total) == [id |-> id, user_id |-> user_id, total |-> total]

(***************************************************************************)
(* The CacheManager as a state machine: register, get, invalidate and      *)
(* clearTable called in any order by the callers of one process.  The      *)
(* methods are synchronous (bun:sqlite), so each call is one step.         *)
(***************************************************************************)
\* SELECT name FROM users WHERE id = 1
\* SELECT * FROM users WHERE id = 1
\* SELECT COUNT(*) FROM users
\* SELECT u.name, o.total FROM users u JOIN orders o ON u.id = o.user_id
StoreSelects ==
  <<Select(<<Col("name")>>, <<From("users")>>, Where("AND", <<Cond("id", "=", Num(1))>>)),
    Select(<<Col("*")>>, <<From("users")>>, Where("AND", <<Cond("id", "=", Num(1))>>)),
    Select(<<Aggr("COUNT", "*")>>, <<From("users")>>, NoWhere),
    Select(<<QCol("u", "name"), QCol("o", "total")>>,
           <<FromAs("users", "u"), JoinOn("orders", "o", "u", "id", "o", "user_id")>>,
           NoWhere)>>

StoreKeys == {analyzeSELECT(StoreSelects[i]) : i \in 1..Len(StoreSelects)}

StoreFingerprints == {k.fingerprint : k \in StoreKeys}

\* UPDATE users SET name = 1 WHERE id = 1
\* UPDATE users SET age = 1 WHERE id = 2
\* INSERT INTO users ...
\* DELETE FROM orders WHERE id = 1
\* DELETE FROM users WHERE id = 2
StoreWriteStatements ==
  <<Update("users", <<Assign("name", 1)>>, Where("AND", <<Cond("id", "=", Num(1))>>)),
    Update("users", <<Assign("age", 1)>>, Where("AND", <<Cond("id", "=", Num(2))>>)),
    Insert("users"),
    Delete("orders", Where("AND", <<Cond("id", "=", Num(1))>>)),
    Delete("users", Where("AND", <<Cond("id", "=", Num(2))>>))>>

StoreWrites == {analyzeWrite(StoreWriteStatements[i]) : i \in 1..Len(StoreWriteStatements)}

StoreTables == {"users", "orders"}

\* The results the callers register: JSON values.
Results == {Num(n) : n \in 1..MaxResult}

NoFingerprint == [form |-> "none"]

NoWrite == [operation |-> "none"]

\* The record of the last call: what was called, with what, what it
\* returned and whether it threw.
Call(op, fp, x, w, table, ret, threw) ==
  [op |-> op, fp |-> fp, x |-> x, w |-> w, table |-> table, ret |-> ret,
   threw |-> threw]

StoreInit ==
  /\ cache_entries = <<>>
  /\ table_index = {}
  /\ row_index = {}
  /\ column_index = {}
  /\ aggregate_index = {}
  /\ lruCache = <<>>

Init ==
  /\ StoreInit
  /\ appDb = {}
  /\ last = Call("new", NoFingerprint, Null, NoWrite, "", Null, FALSE)

SetDb(d) ==
  /\ cache_entries' = d.cache_entries
  /\ table_index' = d.table_index
  /\ row_index' = d.row_index
  /\ column_index' = d.column_index
  /\ aggregate_index' = d.aggregate_index

\* The statement that fails in a call of n statements: 0 for none, else the
\* first statement, the last one or COMMIT.
FailPoints(n) == {0, 1, n, n + 1}

Register(k, x) ==
  \E failAt \in FailPoints(Len(RegisterStatements(k.fingerprint, x, k))) :
    LET r == register(CurrentDb, k.fingerprint, x, k, failAt)
    IN /\ SetDb(r.db)
       /\ last' = Call("register", k.fingerprint, x, NoWrite, "", Null, r.threw)
       /\ UNCHANGED <<lruCache, appDb>>

Get(fp) ==
  LET r == get(CurrentDb, lruCache, fp)
  IN /\ lruCache' = r.lru
     /\ last' = Call("get", fp, Null, NoWrite, "", r.ret, r.threw)
     /\ UNCHANGED <<cache_entries, table_index, row_index, column_index,
                    aggregate_index, appDb>>

\* A call whose transaction is never begun (nothing to delete) cannot fail
\* in it.
Invalidate(w) ==
  \E failAt \in FailPoints(Len(DeleteStatements({}))) :
    LET r == invalidate(CurrentDb, lruCache, w, failAt)
    IN /\ failAt > 0 => r.threw
       /\ SetDb(r.db)
       /\ lruCache' = r.lru
       /\ last' = Call("invalidate", NoFingerprint, Null, w, "", r.ret, r.threw)
       /\ UNCHANGED appDb

ClearTable(t) ==
  \E failAt \in FailPoints(Len(DeleteStatements({}))) :
    LET r == clearTable(CurrentDb, lruCache, t, failAt)
    IN /\ failAt > 0 => r.threw
       /\ SetDb(r.db)
       /\ lruCache' = r.lru
       /\ last' = Call("clearTable", NoFingerprint, Null, NoWrite, t, r.ret, r.threw)
       /\ UNCHANGED appDb

Next ==
  \/ \E k \in StoreKeys, x \in Results : Register(k, x)
  \/ \E fp \in StoreFingerprints : Get(fp)
  \/ \E w \in StoreWrites : Invalidate(w)
  \/ \E t \in StoreTables : ClearTable(t)

Spec == Init /\ [][Next]_vars

(***************************************************************************)
(* Properties of the CacheManager (specification Spec).                    *)
(***************************************************************************)
\* What get(fp) returns when called in the current state.
GetRet(fp) == get(CurrentDb, lruCache, fp).ret

\* The CacheKey and the result stored for fp.
StoredKey(fp) == JSONParse(cache_entries[fp].cache_key)

StoredResult(fp) == JSONParse(cache_entries[fp].result)

\* The index rows that carry fp.
TableRows(fp) == {r \in table_index : r[2] = fp}

RowRows(fp) == {r \in row_index : r[3] = fp}

ColumnRows(fp) == {r \in column_index : r[3] = fp}

AggregateRows(fp) == {r \in aggregate_index : r[2] = fp}

\* The index rows register writes for fp under the key k.
IndexRowsOfKey(fp, k) ==
  LET d0 == [cache_entries |-> <<>>, table_index |-> {}, row_index |-> {},
             column_index |-> {}, aggregate_index |-> {}]
      F[i \in 0..Len(k.tables)] ==
        IF i = 0 THEN d0
        ELSE LET stmts == TableStatements(fp, k, k.tables[i])
             IN ExecPrefix(F[i - 1], stmts, Len(stmts))
  IN F[Len(k.tables)]

\* C3: after register(fp, x, k) and an invalidate(w) that returns, with
\* shouldInvalidate(k, w) true, get(fp) is absent: of every stored entry,
\* whether or not the LRU holds it.
C3_InvalidateRemoves ==
  [][(last'.op = "invalidate" /\ ~last'.threw) =>
       \A fp \in DOMAIN cache_entries :
         shouldInvalidate(StoredKey(fp), last'.w) => GetRet(fp)' = Null]_vars

\* An invalidate has returned having deleted entries, one of them held in
\* no LRU slot any more and absent from cache_entries.
C3_Witness ==
  /\ last.op = "invalidate"
  /\ ~last.threw
  /\ last.ret >= 2
  /\ \E fp \in StoreFingerprints : fp \notin DOMAIN cache_entries /\ GetRet(fp) = Null

\* C4: a get(fp) directly after a register(fp, x, k) that returned returns
\* x, whatever came before.
C4_RegisterThenGet ==
  (last.op = "register" /\ ~last.threw) => GetRet(last.fp) = last.x

\* C5: an invalidate(w) that returns leaves every entry with
\* shouldInvalidate(k, w) false in place: get(fp) returns the registered
\* (stored) result x, and no index row of fp is removed.
C5_InvalidateKeepsOthers ==
  [][(last'.op = "invalidate" /\ ~last'.threw) =>
       \A fp \in DOMAIN cache_entries :
         ~shouldInvalidate(StoredKey(fp), last'.w) =>
           /\ GetRet(fp)' = StoredResult(fp)
           /\ TableRows(fp) \subseteq table_index'
           /\ RowRows(fp) \subseteq row_index'
           /\ ColumnRows(fp) \subseteq column_index'
           /\ AggregateRows(fp) \subseteq aggregate_index']_vars

\* C7: every index row carries the fingerprint of a cache_entries row.
C7_IndexRowsOwned ==
  /\ \A r \in table_index : r[2] \in DOMAIN cache_entries
  /\ \A r \in row_index : r[3] \in DOMAIN cache_entries
  /\ \A r \in column_index : r[3] \in DOMAIN cache_entries
  /\ \A r \in aggregate_index : r[2] \in DOMAIN cache_entries

\* A call has deleted an entry that had rows in several index tables while
\* rows of other entries remain.
C7_Witness ==
  /\ last.op \in {"invalidate", "clearTable"}
  /\ last.ret >= 1
  /\ table_index # {}
  /\ column_index # {}
  /\ \E fp \in StoreFingerprints : fp \notin DOMAIN cache_entries

\* C8: every fingerprint held in the LRU has a cache_entries row, so get
\* of a fingerprint without a row is absent.
C8_LruWithinEntries ==
  \A fp \in StoreFingerprints :
    fp \notin DOMAIN cache_entries =>
      LruPositions(lruCache, fp) = {} /\ GetRet(fp) = Null

\* clearTable has returned having deleted entries while the LRU still holds
\* another entry.
C8_Witness ==
  /\ last.op = "clearTable"
  /\ last.ret >= 1
  /\ ~last.threw
  /\ lruCache # <<>>

\* C9: between the calls (the only points where another caller runs) each
\* entry is present with all the index rows of its key, or absent with
\* every index row of its fingerprint.
C9_NoPartialState ==
  \A fp \in StoreFingerprints :
    IF fp \in DOMAIN cache_entries
      THEN LET rows == IndexRowsOfKey(fp, StoredKey(fp))
           IN /\ rows.table_index \subseteq table_index
              /\ rows.row_index \subseteq row_index
              /\ rows.column_index \subseteq column_index
              /\ rows.aggregate_index \subseteq aggregate_index
      ELSE /\ TableRows(fp) = {}
           /\ RowRows(fp) = {}
           /\ ColumnRows(fp) = {}
           /\ AggregateRows(fp) = {}

\* A register of a two-table key has committed: the entry is there with
\* rows under both tables.
C9_Witness ==
  /\ last.op = "register"
  /\ ~last.threw
  /\ Cardinality(TableRows(last.fp)) = 2
  /\ ColumnRows(last.fp) # {}

\* C10: a call in which a statement (or COMMIT) fails throws and leaves the
\* five tables and the LRU as they were.
C10_FailureLeavesState ==
  [][last'.threw =>
       /\ cache_entries' = cache_entries
       /\ table_index' = table_index
       /\ row_index' = row_index
       /\ column_index' = column_index
       /\ aggregate_index' = aggregate_index
       /\ lruCache' = lruCache]_vars

\* An invalidate with entries to delete has thrown; entries, index rows and
\* LRU slots are there.
C10_Witness ==
  /\ last.op = "invalidate"
  /\ last.threw
  /\ DOMAIN cache_entries # {}
  /\ FingerprintsToDelete(CurrentDb, last.w) # {}
  /\ lruCache # <<>>

(***************************************************************************)
(* The decider against the database: shouldInvalidate applied to the       *)
(* analysis of a SELECT and of a write statement, with the result of the   *)
(* SELECT before and after the write runs (specification SpecDecider).     *)
(***************************************************************************)
Values == 1..MaxVal

\* The users tables: per id no row or one row.
UsersTables ==
  {{User(i, f[i][1], f[i][2]) : i \in {j \in Values : f[j][1] # 0}} :
     f \in [Values -> (0..MaxVal) \X Values]}

OrdersTables == {{}, {Order(1, 1, 1)}}

Databases == [users : UsersTables, orders : OrdersTables]

\* SELECT name FROM users WHERE id = v
\* SELECT name FROM users WHERE age > 1
\* SELECT * FROM users WHERE age >= v
\* SELECT COUNT(*) FROM users
\* SELECT SUM(age) FROM users
\* SELECT u.name, o.total FROM users u JOIN orders o ON u.id = o.user_id
\* SELECT * FROM users WHERE id = v
\* SELECT age FROM users WHERE age = v
\* SELECT age FROM users WHERE age IN (2, 3)
\* SELECT u.name, o.total FROM users u JOIN orders o ON u.id = o.user_id
\*   WHERE age = 2
\* SELECT name, total FROM users u JOIN orders o ON u.id = o.user_id
DeciderSelects ==
  {Select(<<QCol("u", "name"), QCol("o", "total")>>,
          <<FromAs("users", "u"), JoinOn("orders", "o", "u", "id", "o", "user_id")>>,
          Where("AND", <<Cond("age", "=", Num(2))>>)),
   Select(<<Col("name"), Col("total")>>,
          <<FromAs("users", "u"), JoinOn("orders", "o", "u", "id", "o", "user_id")>>,
          NoWhere)}
  \cup
  {Select(<<Col("name")>>, <<From("users")>>, Where("AND", <<Cond("id", "=", Num(v))>>)) :
     v \in Values}
  \cup {Select(<<Col("*")>>, <<From("users")>>, Where("AND", <<Cond("id", "=", Num(v))>>)) :
          v \in Values}
  \cup {Select(<<Col("age")>>, <<From("users")>>, Where("AND", <<Cond("age", "=", Num(v))>>)) :
          v \in Values}
  \cup {Select(<<Col("age")>>, <<From("users")>>,
               Where("AND", <<Cond("age", "IN", Arr(<<Num(2), Num(3)>>))>>))}
  \cup {Select(<<Col("name")>>, <<From("users")>>, Where("AND", <<Cond("age", ">", Num(1))>>))}
  \cup {Select(<<Col("*")>>, <<From("users")>>, Where("AND", <<Cond("age", ">=", Num(v))>>)) :
          v \in Values}
  \cup {Select(<<Aggr("COUNT", "*")>>, <<From("users")>>, NoWhere),
        Select(<<Aggr("SUM", "age")>>, <<From("users")>>, NoWhere),
        Select(<<QCol("u", "name"), QCol("o", "total")>>,
               <<FromAs("users", "u"), JoinOn("orders", "o", "u", "id", "o", "user_id")>>,
               NoWhere)}

\* UPDATE users SET age = v WHERE id = i
\* UPDATE users SET name = v WHERE age > 1
\* DELETE FROM users WHERE id = i
\* DELETE FROM users WHERE age < v
\* INSERT INTO users VALUES (i, 1, 1)
\* UPDATE orders SET total = v WHERE id = 1
\* DELETE FROM orders WHERE id = 1
\* UPDATE orders SET user_id = v WHERE id = 1
DeciderWriteStatements ==
  {Update("orders", <<Assign("user_id", v)>>, Where("AND", <<Cond("id", "=", Num(1))>>)) :
     v \in Values}
  \cup
  {Update("users", <<Assign("age", v)>>, Where("AND", <<Cond("id", "=", Num(i))>>)) :
     v \in Values, i \in Values}
  \cup {Update("users", <<Assign("name", v)>>, Where("AND", <<Cond("age", ">", Num(1))>>)) :
          v \in Values}
  \cup {Delete("users", Where("AND", <<Cond("id", "=", Num(i))>>)) : i \in Values}
  \cup {Delete("users", Where("AND", <<Cond("age", "<", Num(v))>>)) : v \in Values}
  \cup {InsertRow("users", User(i, 1, 1)) : i \in Values}
  \cup {Update("orders", <<Assign("total", v)>>, Where("AND", <<Cond("id", "=", Num(1))>>)) :
          v \in Values}
  \cup {Delete("orders", Where("AND", <<Cond("id", "=", Num(1))>>))}

DeciderInit ==
  /\ StoreInit
  /\ appDb \in Databases
  /\ last = Call("new", NoFingerprint, Null, NoWrite, "", Null, FALSE)

\* The write runs against the database; the decider is asked about the
\* cached SELECT.
Decide(select, write) ==
  /\ last.op = "new"
  /\ Runs(write, appDb)
  /\ appDb' = Run(write, appDb)
  /\ last' = [op |-> "decide", select |-> select, write |-> write,
              decision |-> shouldInvalidate(analyzeSELECT(select), analyzeWrite(write)),
              before |-> Execute(select, appDb),
              after |-> Execute(select, Run(write, appDb))]
  /\ UNCHANGED storeVars

DeciderNext == \E select \in DeciderSelects, write \in DeciderWriteStatements :
                 Decide(select, write)

SpecDecider == DeciderInit /\ [][DeciderNext]_vars

\* C1: whenever shouldInvalidate(k, w) is false, running the write of w on
\* the database leaves the result of the query of k unchanged.
C1_FalseMeansUnchanged ==
  (last.op = "decide" /\ ~last.decision) => last.before = last.after

(***************************************************************************)
(* The read-through application: ECommerceApp with its database and its    *)
(* CacheManager (specification SpecApp).                                   *)
(***************************************************************************)
\* SELECT name FROM users WHERE id = 1
\* SELECT * FROM users WHERE id = 1
\* SELECT name FROM users WHERE age > 1
\* SELECT COUNT(*) FROM users
AppSelects ==
  {Select(<<Col("name")>>, <<From("users")>>, Where("AND", <<Cond("id", "=", Num(1))>>)),
   Select(<<Col("*")>>, <<From("users")>>, Where("AND", <<Cond("id", "=", Num(1))>>)),
   Select(<<Col("name")>>, <<From("users")>>, Where("AND", <<Cond("age", ">", Num(1))>>)),
   Select(<<Aggr("COUNT", "*")>>, <<From("users")>>, NoWhere)}

\* UPDATE users SET age = v WHERE id = 1
\* UPDATE users SET name = v WHERE id = 1
\* DELETE FROM users WHERE id = 2
\* INSERT INTO users VALUES (2, 1, 1)
AppWriteStatements ==
  {Update("users", <<Assign("age", v)>>, Where("AND", <<Cond("id", "=", Num(1))>>)) :
     v \in Values}
  \cup {Update("users", <<Assign("name", v)>>, Where("AND", <<Cond("id", "=", Num(1))>>)) :
          v \in Values}
  \cup {Delete("users", Where("AND", <<Cond("id", "=", Num(2))>>)),
        InsertRow("users", User(2, 1, 1))}

AppInit ==
  /\ StoreInit
  /\ appDb = [users |-> {User(1, 1, 1), User(2, 1, 2)}, orders |-> {}]
  /\ last = Call("new", NoFingerprint, Null, NoWrite, "", Null, FALSE)

\* ECommerceApp.query with useCache: a hit returns the cached value, a
\* miss executes the SELECT and registers its result.
AppQuery(select) ==
  LET cacheKey == analyzeSELECT(select)
      cached == get(CurrentDb, lruCache, cacheKey.fingerprint)
      result == Execute(select, appDb)
  IN /\ lruCache' = cached.lru
     /\ IF cached.ret # Null
          THEN /\ last' = [op |-> "query", select |-> select, ret |-> cached.ret]
               /\ UNCHANGED <<cache_entries, table_index, row_index, column_index,
                              aggregate_index>>
          ELSE /\ SetDb(register(CurrentDb, cacheKey.fingerprint, result, cacheKey, 0).db)
               /\ last' = [op |-> "query", select |-> select, ret |-> result]
     /\ UNCHANGED appDb

\* ECommerceApp.write with useCache: the statement runs, then the cache is
\* invalidated with its analysis.
AppWrite(write) ==
  LET r == invalidate(CurrentDb, lruCache, analyzeWrite(write), 0)
  IN /\ Runs(write, appDb)
     /\ appDb' = Run(write, appDb)
     /\ SetDb(r.db)
     /\ lruCache' = r.lru
     /\ last' = [op |-> "write", write |-> write, ret |-> r.ret]

AppNext ==
  \/ \E select \in AppSelects : AppQuery(select)
  \/ \E write \in AppWriteStatements : AppWrite(write)

SpecApp == AppInit /\ [][AppNext]_vars

\* C2: every query of the cached application returns what the SELECT
\* returns when executed directly against the current database.
C2_QueryEqualsDirect ==
  last.op = "query" => last.ret = Execute(last.select, appDb)

(***************************************************************************)
(* Fingerprints of pairs of SELECT statements (specification SpecFp).      *)
(***************************************************************************)
FpColumns ==
  {<<Col("name")>>, <<Col("*")>>, <<Col("name"), Col("age")>>,
   <<Col("age"), Col("name")>>}

FpWheres ==
  {NoWhere}
  \cup {Where("AND", <<Cond("id", "=", Num(v))>>) : v \in Values}
  \cup {Where("AND", <<Cond("id", "=", Num(v)), Cond("age", ">", Num(1))>>) : v \in Values}
  \cup {Where("AND", <<Cond("age", ">", Num(v))>>) : v \in Values}

FpLimits == {NoNumber} \cup (0..1)

FpSelects ==
  {[Select(columns, <<From("users")>>, where) EXCEPT !.limit = limit] :
     columns \in FpColumns, where \in FpWheres, limit \in FpLimits}

\* Two statements are given.
FpInit ==
  /\ StoreInit
  /\ appDb = {}
  /\ last \in [op : {"pair"}, a : FpSelects, b : FpSelects]

\* The two statements are analyzed.
Analyze ==
  /\ last.op = "pair"
  /\ last' = [op |-> "analyze", a |-> last.a, b |-> last.b,
              ka |-> analyzeSELECT(last.a), kb |-> analyzeSELECT(last.b)]
  /\ UNCHANGED <<storeVars, appDb>>

FpNext == Analyze

SpecFp == FpInit /\ [][FpNext]_vars

\* C6: two CacheKeys have the same fingerprint exactly when their canonical
\* (normalized) records are equal.
C6_SameFingerprintIffSameKey ==
  last.op = "analyze" =>
    ((last.ka.fingerprint = last.kb.fingerprint)
       <=> (Normalized(last.ka) = Normalized(last.kb)))

(***************************************************************************)
(* Properties of invalidate and clearTable by kind of write.               *)
(***************************************************************************)
\* The tables the stored key of fp references.
StoredTables(fp) == {StoredKey(fp).tables[i].table : i \in 1..Len(StoredKey(fp).tables)}

\* The stored fingerprints whose key references table t.
EntriesOn(t) == {fp \in DOMAIN cache_entries : t \in StoredTables(fp)}

\* C11: after an invalidate for an INSERT into table t has returned, no
\* stored entry whose key references t remains and get of each of those
\* fingerprints is absent.
C11_InsertRemovesAllOnTable ==
  [][\A t \in StoreTables :
       (/\ last'.op = "invalidate"
        /\ ~last'.threw
        /\ last'.w.operation = "INSERT"
        /\ last'.w.table = t) =>
         /\ EntriesOn(t)' = {}
         /\ \A fp \in EntriesOn(t) : GetRet(fp)' = Null]_vars

\* An invalidate for an INSERT has removed three entries (a row lookup, an
\* aggregate and a join); nothing on the table is left.
C11_Witness ==
  /\ last.op = "invalidate"
  /\ ~last.threw
  /\ last.w.operation = "INSERT"
  /\ last.ret = 3
  /\ EntriesOn(last.w.table) = {}

\* C12: after an invalidate for a DELETE on table t has returned, no stored
\* entry classified aggregate or join whose key references t remains.
C12_DeleteRemovesAggregatesAndJoins ==
  [][\A t \in StoreTables :
       (/\ last'.op = "invalidate"
        /\ ~last'.threw
        /\ last'.w.operation = "DELETE"
        /\ last'.w.table = t) =>
         (\A fp \in EntriesOn(t) :
            StoredKey(fp).classification \in {"aggregate", "join"} =>
              fp \notin DOMAIN cache_entries')]_vars

\* An invalidate for a DELETE has removed an aggregate or join entry and left a
\* row lookup in place.
C12_Witness ==
  /\ last.op = "invalidate"
  /\ ~last.threw
  /\ last.w.operation = "DELETE"
  /\ last.ret >= 1
  /\ \E fp \in DOMAIN cache_entries : StoredKey(fp).classification = "row-lookup"
  /\ \A fp \in EntriesOn(last.w.table) :
       StoredKey(fp).classification \notin {"aggregate", "join"}

\* The fingerprints the table index files under table t.
FiledUnder(t) == {r[2] : r \in {x \in table_index : x[1] = t}}

\* C13: after clearTable(t) has returned, every entry that had a table-index
\* row for t is gone from cache_entries, from the four index tables (its rows
\* under other tables included) and from the LRU, and get of its fingerprint
\* is absent.
C13_ClearTableRemovesEverything ==
  [][\A t \in StoreTables :
       (last'.op = "clearTable" /\ ~last'.threw /\ last'.table = t) =>
         (\A fp \in FiledUnder(t) :
            /\ fp \notin DOMAIN cache_entries'
            /\ TableRows(fp)' = {}
            /\ RowRows(fp)' = {}
            /\ ColumnRows(fp)' = {}
            /\ AggregateRows(fp)' = {}
            /\ LruPositions(lruCache', fp) = {}
            /\ GetRet(fp)' = Null)]_vars

\* clearTable("orders") has removed the join entry, whose index rows under
\* "users" are gone too, while an entry on "users" alone is still stored and
\* held by the LRU.
C13_Witness ==
  /\ last.op = "clearTable"
  /\ ~last.threw
  /\ last.table = "orders"
  /\ last.ret = 1
  /\ FiledUnder("orders") = {}
  /\ \E fp \in FiledUnder("users") : LruPositions(lruCache, fp) # {}

\* The outcome of clearTable(t) called in the current state, whichever
\* statement would be the one to fail.
ClearTableOutcomes(t) ==
  {[ret |-> clearTable(CurrentDb, lruCache, t, failAt).ret,
    threw |-> clearTable(CurrentDb, lruCache, t, failAt).threw] :
     failAt \in FailPoints(Len(DeleteStatements({})))}

\* C14: a clearTable(t) that returns has returned the number of entries it
\* removed from cache_entries, and a clearTable(t) called next returns 0.
C14_ClearTableCountThenZero ==
  [][\A t \in StoreTables :
       (last'.op = "clearTable" /\ ~last'.threw /\ last'.table = t) =>
         /\ last'.ret = Cardinality(DOMAIN cache_entries)
                          - Cardinality(DOMAIN cache_entries')
         /\ ClearTableOutcomes(t)' = {[ret |-> 0, threw |-> FALSE]}]_vars

\* clearTable("users") has removed three entries; calling it again would
\* return 0.
C14_Witness ==
  /\ last.op = "clearTable"
  /\ ~last.threw
  /\ last.table = "users"
  /\ last.ret = 3
  /\ DOMAIN cache_entries = {}
  /\ ClearTableOutcomes("users") = {[ret |-> 0, threw |-> FALSE]}

\* C15: an invalidate that returns has returned the number of entries its
\* call removed from cache_entries (the count before minus the count after),
\* which is 0 when it removed none.
C15_InvalidateReturnsRemoved ==
  [][(last'.op = "invalidate" /\ ~last'.threw) =>
       /\ DOMAIN cache_entries' \subseteq DOMAIN cache_entries
       /\ last'.ret = Cardinality(DOMAIN cache_entries \ DOMAIN cache_entries')
       /\ (DOMAIN cache_entries' = DOMAIN cache_entries => last'.ret = 0)]_vars

\* An invalidate for an UPDATE has removed two entries and returned 2 while
\* another entry of the same table, a candidate of the table index, stays.
C15_Witness ==
  /\ last.op = "invalidate"
  /\ ~last.threw
  /\ last.w.operation = "UPDATE"
  /\ last.ret = 2
  /\ Cardinality(EntriesOn(last.w.table)) = 1

C17_MissReturnsNull ==
  [][(last'.op = "get" /\ last'.fp \notin DOMAIN cache_entries) =>
       /\ last'.ret = Null
       /\ ~last'.threw
       /\ lruCache' = lruCache]_vars

\* A get of a fingerprint that is not stored has returned null while other
\* entries are stored and the LRU holds one of them.
C17_Witness ==
  /\ last.op = "get"
  /\ last.fp \notin DOMAIN cache_entries
  /\ last.ret = Null
  /\ ~last.threw
  /\ DOMAIN cache_entries # {}
  /\ Len(lruCache) > 0

\* C18: the LRU never holds more than LRU_MAX_SIZE entries (1000 in the
\* source, scaled down here), in particular after a get has returned.
C18_LruBounded == Len(lruCache) <= LRU_MAX_SIZE

\* More entries are stored than the LRU can hold, and the get that has just
\* returned put its fingerprint at the end of a full LRU.
C18_Witness ==
  /\ last.op = "get"
  /\ Cardinality(DOMAIN cache_entries) > LRU_MAX_SIZE
  /\ Len(lruCache) = LRU_MAX_SIZE
  /\ lruCache[Len(lruCache)].fp = last.fp
  /\ lruCache[Len(lruCache)].result = last.ret

(***************************************************************************)
(* Properties of the UPDATE branch of shouldInvalidate (SpecDecider).      *)
(***************************************************************************)
\* The cache key and the write information of the decision just taken.
DecidedKey == analyzeSELECT(last.select)

DecidedWrite == analyzeWrite(last.write)

\* The decision was about an UPDATE on the one table of a cached query that
\* is not a join.
UpdateOnSingleTable ==
  /\ last.op = "decide"
  /\ DecidedKey.classification # "join"
  /\ Len(DecidedKey.tables) = 1
  /\ DecidedWrite.operation = "UPDATE"
  /\ DecidedKey.tables[1].table = DecidedWrite.table

\* The selected columns of the decided key with FUNC(col) stripped to col.
SelectedBaseColumns ==
  {BaseColumn(DecidedKey.tables[1].columns[i]) :
     i \in 1..Len(DecidedKey.tables[1].columns)}

\* C19: for a cached query that is not a join and does not select "*", an
\* UPDATE on its table that modifies none of the selected columns (aggregate
\* wrappers stripped) makes shouldInvalidate return false.
C19_NoColumnOverlapMeansFalse ==
  (/\ UpdateOnSingleTable
   /\ ~SeqContains(DecidedKey.tables[1].columns, "*")
   /\ SelectedBaseColumns \cap Range(DecidedWrite.modifiedColumns) = {})
  => ~last.decision

\* SELECT SUM(age) FROM users was decided against an UPDATE that sets name:
\* the stripped column age is not modified and the decision is false.
C19_Witness ==
  /\ UpdateOnSingleTable
  /\ DecidedKey.classification = "aggregate"
  /\ SelectedBaseColumns = {"age"}
  /\ Range(DecidedWrite.modifiedColumns) = {"name"}
  /\ ~last.decision

\* The conditions of the cached table, and the strings of their equality
\* values and IN members.
CachedConditions ==
  IF DecidedKey.tables[1].hasConditions
    THEN Range(DecidedKey.tables[1].conditions) ELSE {}

CachedRowStrings ==
  {String(c.value) : c \in {x \in CachedConditions : x.operator = "="}}
  \cup UNION {{String(c.value.items[j]) : j \in 1..Len(c.value.items)} :
                c \in {x \in CachedConditions : x.operator = "IN" /\ IsArray(x.value)}}

\* Range analysis proves the cached and the write conditions disjoint.
ProvenDisjoint ==
  /\ Len(DecidedWrite.conditions) > 0
  /\ Len(DecidedKey.tables[1].conditions) > 0
  /\ ~conditionsOverlap(DecidedKey.tables[1].conditions, DecidedWrite.conditions)

\* The decision was about an UPDATE with column overlap and affected rows
\* on a single-table query, the conditions not proven disjoint.
RowOverlapCase ==
  /\ UpdateOnSingleTable
  /\ columnsOverlap(DecidedKey.tables[1].columns, DecidedWrite.modifiedColumns)
  /\ DecidedWrite.hasAffectedRows
  /\ ~ProvenDisjoint

\* C20: in that case shouldInvalidate returns true if and only if the cached
\* table has no equality/IN condition or some cached equality value or IN
\* member, as a string, is a member of affectedRows.
C20_RowOverlapDecides ==
  RowOverlapCase =>
    (last.decision <=>
       \/ \A c \in CachedConditions : c.operator \notin {"=", "IN"}
       \/ CachedRowStrings \cap Range(DecidedWrite.affectedRows) # {})

\* A query with an equality condition was decided against an UPDATE of its
\* selected column whose affected rows do not contain the cached value: the
\* decision is false.
C20_Witness ==
  /\ RowOverlapCase
  /\ \E c \in CachedConditions : c.operator = "="
  /\ CachedRowStrings \cap Range(DecidedWrite.affectedRows) = {}
  /\ ~last.decision

(***************************************************************************)
(* Properties of shouldInvalidate on cached joins (SpecDecider).           *)
(***************************************************************************)
\* The decision was about an UPDATE on a table of a cached join.
UpdateOnJoin ==
  /\ last.op = "decide"
  /\ DecidedKey.classification = "join"
  /\ DecidedWrite.operation = "UPDATE"
  /\ AffectedTables(DecidedKey, DecidedWrite) # {}

\* The position in the key of the table the write is matched with.
WrittenIndex == SetMin(AffectedTables(DecidedKey, DecidedWrite))

\* The columns the key records as selected from the written table, FUNC(col)
\* stripped to col.
SelectedFromWritten ==
  {BaseColumn(DecidedKey.tables[WrittenIndex].columns[i]) :
     i \in 1..Len(DecidedKey.tables[WrittenIndex].columns)}

\* The columns of the written table that a captured join condition uses.
JoinColumnsOfWritten ==
  LET jcs == Range(DecidedKey.tables[1].joinConditions)
  IN {jc.leftColumn : jc \in {x \in jcs :
        ResolveTable(DecidedKey, x.leftTable) = DecidedWrite.table}}
     \cup {jc.rightColumn : jc \in {x \in jcs :
        ResolveTable(DecidedKey, x.rightTable) = DecidedWrite.table}}

\* C21: for a cached join, an UPDATE on one of its tables whose modified
\* columns are neither selected from that table nor the left or right column
\* of a captured join condition on that table makes shouldInvalidate return
\* false.
C21_JoinUntouchedMeansFalse ==
  (/\ UpdateOnJoin
   /\ "*" \notin SelectedFromWritten
   /\ Range(DecidedWrite.modifiedColumns) \cap SelectedFromWritten = {}
   /\ Range(DecidedWrite.modifiedColumns) \cap JoinColumnsOfWritten = {})
  => ~last.decision

\* The join of users and orders on u.id = o.user_id selecting u.name was
\* decided against an UPDATE of users.age: the decision is false.
C21_Witness ==
  /\ UpdateOnJoin
  /\ DecidedWrite.table = "users"
  /\ Range(DecidedWrite.modifiedColumns) = {"age"}
  /\ SelectedFromWritten = {"name"}
  /\ JoinColumnsOfWritten = {"id"}
  /\ ~last.decision

\* C22: for a cached join, an UPDATE on a joined table other than the first
\* that modifies a column selected from that table or a column of its join
\* condition makes shouldInvalidate return true, whatever rows the WHERE
\* clause of the write names.
C22_JoinedTableTouchedMeansTrue ==
  (/\ UpdateOnJoin
   /\ WrittenIndex > 1
   /\ \/ "*" \in SelectedFromWritten
      \/ Range(DecidedWrite.modifiedColumns) \cap SelectedFromWritten # {}
      \/ Range(DecidedWrite.modifiedColumns) \cap JoinColumnsOfWritten # {})
  => last.decision

\* The join with WHERE age = 2 on its first table was decided against an
\* UPDATE of the join column orders.user_id whose WHERE names row 1, which
\* is not a value of the cached conditions: the decision is true.
C22_Witness ==
  /\ UpdateOnJoin
  /\ WrittenIndex > 1
  /\ Range(DecidedWrite.modifiedColumns) = {"user_id"}
  /\ JoinColumnsOfWritten = {"user_id"}
  /\ Len(DecidedKey.tables[1].conditions) > 0
  /\ ~rowsOverlap(DecidedKey, DecidedWrite.affectedRows)
  /\ last.decision

(***************************************************************************)
(* One range query registered, then one UPDATE with a range of its own     *)
(* invalidated (specification SpecRange).                                  *)
(***************************************************************************)
\* The literals a range bounds a column with: numbers for age, the date
\* strings '202n-01-01' for created_at.
RangeLiterals(column) ==
  IF column = "age" THEN {Num(n) : n \in Values} ELSE {Text(n) : n \in Values}

RangeColumns == {"age", "created_at"}

\* The conditions column operator literal, the literal of the column's kind.
RangeConditions(operators) ==
  UNION {{Cond(column, operator, value) :
            operator \in operators, value \in RangeLiterals(column)} :
           column \in RangeColumns}

\* SELECT name FROM users WHERE column >(=) literal
\* SELECT COUNT(*) FROM users WHERE column >(=) literal
RangeSelects ==
  {Select(columns, <<From("users")>>, Where("AND", <<cond>>)) :
     columns \in {<<Col("name")>>, <<Aggr("COUNT", "*")>>},
     cond \in RangeConditions({">", ">="})}

\* UPDATE users SET name = 1 WHERE column <(=) literal
RangeWriteStatements ==
  {Update("users", <<Assign("name", 1)>>, Where("AND", <<cond>>)) :
     cond \in RangeConditions({"<", "<="})}

RangeInit == Init

\* The range query is registered.
RangeRegister(select, x) ==
  /\ last.op = "new"
  /\ Register(analyzeSELECT(select), x)

\* The write is handed to invalidate.
RangeInvalidate(stmt) ==
  /\ last.op = "register"
  /\ ~last.threw
  /\ Invalidate(analyzeWrite(stmt))

RangeNext ==
  \/ \E select \in RangeSelects, x \in Results : RangeRegister(select, x)
  \/ \E stmt \in RangeWriteStatements : RangeInvalidate(stmt)

SpecRange == RangeInit /\ [][RangeNext]_vars

\* The position of a literal in the order of its column: the number, or
\* the year of the date string.
LiteralOrder(v) == v.n

\* The lower bound lo (> or >=) and the upper bound hi (< or <=) on one
\* column leave no value between them.
BoundsDisjoint(lo, hi) ==
  /\ lo.column = hi.column
  /\ lo.operator \in {">", ">="}
  /\ hi.operator \in {"<", "<="}
  /\ \/ LiteralOrder(hi.value) < LiteralOrder(lo.value)
     \/ /\ LiteralOrder(hi.value) = LiteralOrder(lo.value)
        /\ ~(lo.operator = ">=" /\ hi.operator = "<=")

\* C23: an invalidate of an UPDATE whose WHERE bounds a column to a range
\* disjoint from the range the WHERE of every registered query places on the
\* same column deletes 0 entries, with number bounds and with date-string
\* bounds alike.
C23_DisjointRangeDeletesNothing ==
  [][(/\ last'.op = "invalidate"
      /\ ~last'.threw
      /\ \A fp \in DOMAIN cache_entries :
           BoundsDisjoint(StoredKey(fp).tables[1].conditions[1],
                          last'.w.conditions[1]))
     => last'.ret = 0]_vars

(***************************************************************************)
(* Two SELECTs that differ in one clause besides the select list, FROM and *)
(* WHERE are analyzed (specification SpecModifier).                        *)
(***************************************************************************)
\* Every combination of the clauses, an OFFSET without LIMIT included.
ModifierCombinations ==
  {[Select(<<Col("name")>>, <<From("users")>>, Where("AND", <<cond>>))
      EXCEPT !.orderby = orderby, !.limit = limit, !.offset = offset,
             !.distinct = distinct, !.subquery = subquery, !.setOp = setOp] :
     cond \in {Cond("id", "=", Num(1)), Cond("age", ">", Num(1))},
     orderby \in {<<>>, <<[column |-> "name", order |-> "ASC"]>>},
     limit \in {NoNumber} \cup (0..1),
     offset \in {NoNumber} \cup (0..1),
     distinct \in BOOLEAN,
     subquery \in BOOLEAN,
     setOp \in {"", "UNION"}}

\* SELECT [DISTINCT] name FROM users WHERE id = 1 | age > 1
\*   [ORDER BY name] [LIMIT l] [OFFSET f], with or without a subquery in it,
\*   alone or as the head of a UNION.
ModifierSelects ==
  {q \in ModifierCombinations : q.offset # NoNumber => q.limit # NoNumber}

Modifiers == {"orderby", "limit", "offset", "distinct", "subquery", "setOp"}

\* The clauses in which the statements a and b differ.
ModifiersChanged(a, b) == {m \in Modifiers : a[m] # b[m]}

\* Two statements that differ in exactly one of those clauses are given.
ModifierInit ==
  /\ StoreInit
  /\ appDb = {}
  /\ last \in {pair \in [op : {"pair"}, a : ModifierSelects, b : ModifierSelects] :
                 /\ pair.a.where = pair.b.where
                 /\ Cardinality(ModifiersChanged(pair.a, pair.b)) = 1}

SpecModifier == ModifierInit /\ [][FpNext]_vars

\* C24: two SELECTs that are identical except for one of ORDER BY, LIMIT,
\* OFFSET, DISTINCT, the presence of a subquery or a set operation get
\* different fingerprints, a LIMIT or OFFSET of 0 against none included.
C24_ModifierChangesFingerprint ==
  (/\ last.op = "analyze"
   /\ last.a.columns = last.b.columns
   /\ last.a.from = last.b.from
   /\ last.a.where = last.b.where
   /\ Cardinality(ModifiersChanged(last.a, last.b)) = 1)
  => last.ka.fingerprint # last.kb.fingerprint

(***************************************************************************)
(* Two SELECTs whose IN lists are permutations of each other are analyzed  *)
(* (specification SpecInList).                                             *)
(***************************************************************************)
MaxInList == 3

\* The literals of the IN lists: the numbers 1, 9 and 10 and the string
\* '2021-01-01'.
InListValues == {Num(1), Num(9), Num(10), Text(1)}

\* The lists of two to MaxInList different literals.
InLists ==
  {l \in UNION {[1..n -> InListValues] : n \in 2..MaxInList} :
     \A i, j \in 1..Len(l) : i # j => l[i] # l[j]}

\* SELECT name FROM users WHERE column IN (list): a row lookup for id, a
\* hashed fingerprint for age.
InListSelect(column, list) ==
  Select(<<Col("name")>>, <<From("users")>>,
         Where("AND", <<Cond(column, "IN", Arr(list))>>))

\* Two statements with the same column and the same literals in the list.
InListInit ==
  /\ StoreInit
  /\ appDb = {}
  /\ last \in {[op |-> "pair", a |-> InListSelect(column, l1), b |-> InListSelect(column, l2)] :
                 column \in {"id", "age"},
                 l1 \in InLists,
                 l2 \in InLists}
  /\ Range(last.a.where.conds[1].value.items) = Range(last.b.where.conds[1].value.items)

SpecInList == InListInit /\ [][FpNext]_vars

\* C25: the fingerprint does not depend on the order of the values of an IN
\* list, whatever the length of the list and the types of its values, in
\* the readable and in the hashed form.
C25_InListOrderIrrelevant ==
  (/\ last.op = "analyze"
   /\ last.a.where.conds[1].operator = "IN"
   /\ last.a.where.conds[1].column = last.b.where.conds[1].column
   /\ Range(last.a.where.conds[1].value.items)
        = Range(last.b.where.conds[1].value.items))
  => last.ka.fingerprint = last.kb.fingerprint

(***************************************************************************)
(* A parsed statement is handed to analyzeWrite (specification SpecWrite). *)
(***************************************************************************)
WriteWheres ==
  {NoWhere}
  \cup {Where("AND", <<Cond("id", "=", Num(v))>>) : v \in Values}
  \cup {Where("AND", <<Cond("age", ">", Num(v))>>) : v \in Values}

\* What the parser returns for
\*   UPDATE table SET column = v [WHERE ...], DELETE FROM table [WHERE ...],
\*   INSERT INTO table ..., REPLACE INTO table ...,
\*   SELECT ... [WHERE ...]: a statement whose AST has no table member.
ParsedStatements ==
  {Update(table, <<Assign(column, v)>>, where) :
     table \in StoreTables, column \in {"name", "age"}, v \in Values,
     where \in WriteWheres}
  \cup {Delete(table, where) : table \in StoreTables, where \in WriteWheres}
  \cup {Insert(table) : table \in StoreTables}
  \cup {[Insert(table) EXCEPT !.type = "replace"] : table \in StoreTables}
  \cup {[Delete("", where) EXCEPT !.type = "select"] : where \in WriteWheres}

\* A parsed statement is given.
WriteInit ==
  /\ StoreInit
  /\ appDb = {}
  /\ last \in [op : {"parsed"}, stmt : ParsedStatements]

\* analyzeWrite returns: the parse succeeded, and nothing after it throws.
AnalyzeWrite ==
  /\ last.op = "parsed"
  /\ last' = [op |-> "analyzeWrite", stmt |-> last.stmt, threw |-> FALSE,
              info |-> analyzeWrite(last.stmt)]
  /\ UNCHANGED <<storeVars, appDb>>

WriteNext == AnalyzeWrite

SpecWrite == WriteInit /\ [][WriteNext]_vars

\* C26: analyzeWrite returns no WriteInfo with a placeholder table or with
\* an operation other than INSERT, UPDATE, DELETE; a statement without a
\* write target table makes it fail.
C26_NoPlaceholderWriteInfo ==
  last.op = "analyzeWrite" =>
    /\ last.stmt.table = "" => last.threw
    /\ ~last.threw =>
         /\ last.info.table # "unknown"
         /\ last.info.operation \in {"INSERT", "UPDATE", "DELETE"}

(***************************************************************************)
(* Two callers on one database file (specification SpecRace).  A           *)
(* CacheManager is constructed on a path (":memory:" by default, --db      *)
(* path in the server) and puts the file in WAL mode; a second             *)
(* CacheManager on the same path is another caller of the same store.      *)
(* Every statement and every BEGIN ... COMMIT block is atomic; what one    *)
(* call does outside its transaction is a step of its own.  The variables  *)
(* lruCache and last belong to the caller whose invalidate is followed     *)
(* step by step; the other caller's calls are taken whole.                 *)
(***************************************************************************)
RaceCall(op, w, toDelete, between, ret) ==
  [op |-> op, w |-> w, toDelete |-> toDelete, between |-> between,
   ret |-> ret, threw |-> FALSE]

RaceInit ==
  /\ StoreInit
  /\ appDb = {}
  /\ last = RaceCall("new", NoWrite, {}, {}, Null)

\* What the other caller's commit adds to the record of the followed call:
\* the commits made after its enumeration and before its transaction.
Between(op) ==
  IF last.op = "enumerated" THEN [last EXCEPT !.between = @ \cup {op}] ELSE last

\* invalidate up to "if (fingerprintsToDelete.length === 0) return 0":
\* findAffectedFingerprints, getBatchCacheKeys and the shouldInvalidate
\* loop, all before BEGIN.
RaceEnumerate(w) ==
  /\ last.op # "enumerated"
  /\ LET fingerprintsToDelete == FingerprintsToDelete(CurrentDb, w)
     IN last' = IF fingerprintsToDelete = {}
                  THEN RaceCall("invalidate", w, {}, {}, Num(0))
                  ELSE RaceCall("enumerated", w, fingerprintsToDelete, {}, Null)
  /\ UNCHANGED <<storeVars, appDb>>

\* invalidate from BEGIN to its return: the five batch deletes, COMMIT and
\* the LRU eviction.
RaceDelete ==
  /\ last.op = "enumerated"
  /\ LET r == DeleteBatch(CurrentDb, lruCache, last.toDelete, 0)
     IN /\ SetDb(r.db)
        /\ lruCache' = r.lru
        /\ last' = [last EXCEPT !.op = "invalidate", !.ret = Num(r.ret)]
  /\ UNCHANGED appDb

\* The other caller's register commits.
RaceRegister(k, x) ==
  /\ SetDb(register(CurrentDb, k.fingerprint, x, k, 0).db)
  /\ last' = Between("register")
  /\ UNCHANGED <<lruCache, appDb>>

\* The other caller's invalidate commits (a call that deletes nothing
\* begins no transaction).
RaceInvalidate(w) ==
  /\ FingerprintsToDelete(CurrentDb, w) # {}
  /\ SetDb(invalidate(CurrentDb, <<>>, w, 0).db)
  /\ last' = Between("invalidate")
  /\ UNCHANGED <<lruCache, appDb>>

\* The other caller's clearTable commits.
RaceClearTable(t) ==
  /\ EntriesOn(t) # {}
  /\ SetDb(clearTable(CurrentDb, <<>>, t, 0).db)
  /\ last' = Between("clearTable")
  /\ UNCHANGED <<lruCache, appDb>>

RaceNext ==
  \/ \E w \in StoreWrites : RaceEnumerate(w)
  \/ RaceDelete
  \/ \E k \in StoreKeys : RaceRegister(k, Num(1))
  \/ \E w \in StoreWrites : RaceInvalidate(w)
  \/ \E t \in StoreTables : RaceClearTable(t)

SpecRace == RaceInit /\ [][RaceNext]_vars

\* C27: within one invalidate call no other caller's register, invalidate
\* or clearTable commits between the candidate enumeration (with its
\* shouldInvalidate decisions) and the deletes, and a candidate that is
\* gone by delete time is a no-op: the deletes remove the chosen
\* fingerprints and nothing else.
C27_SnapshotUnderOneTransaction ==
  [][(last.op = "enumerated" /\ last'.op = "invalidate")
     => /\ last.between = {}
        /\ DOMAIN cache_entries' = DOMAIN cache_entries \ last.toDelete
        /\ \A fp \in DOMAIN cache_entries' :
             cache_entries'[fp] = cache_entries[fp]]_vars

\* C28: when a register has committed between an invalidate's enumeration
\* and its deletes, every entry stored when the deletes execute whose key
\* shouldInvalidate selects for the write is absent once the invalidate has
\* returned.
C28_RegisterBeforeDeletesIsRemoved ==
  [][(last.op = "enumerated" /\ last'.op = "invalidate"
      /\ "register" \in last.between)
     => \A fp \in DOMAIN cache_entries :
          shouldInvalidate(StoredKey(fp), last.w)
            => fp \notin DOMAIN cache_entries']_vars

(***************************************************************************)
(* rangesOverlap on two conditions on one column (specification            *)
(* SpecOverlap).                                                           *)
(***************************************************************************)
\* The literals of the conditions: the numbers 1 and 2, the string '1' and
\* a string that is no number.
OverlapLiterals == {Num(1), Num(2), Str(1), Text(1)}

\* The value lists of IN: one or two of 1, 2 and the string that is no
\* number.
OverlapLists ==
  LET items == {Num(1), Num(2), Text(1)}
  IN {<<a>> : a \in items} \cup {p \in items \X items : p[1] # p[2]}

\* column op literal, column BETWEEN lo AND hi, column IN (list).
OverlapConditions ==
  {Cond("age", operator, value) :
     operator \in {"=", ">", ">=", "<", "<="}, value \in OverlapLiterals}
  \cup {Cond("age", "BETWEEN", Arr(<<Num(1), Num(hi)>>)) : hi \in 1..2}
  \cup {Cond("age", "IN", Arr(list)) : list \in OverlapLists}

\* Two conditions on the same column are given.
OverlapInit ==
  /\ StoreInit
  /\ appDb = {}
  /\ last \in [op : {"conditions"}, c1 : OverlapConditions, c2 : OverlapConditions]

\* rangesOverlap(c1, c2) returns.
RangesOverlap ==
  /\ last.op = "conditions"
  /\ last' = [op |-> "rangesOverlap", c1 |-> last.c1, c2 |-> last.c2,
              ret |-> rangesOverlap(last.c1, last.c2)]
  /\ UNCHANGED <<storeVars, appDb>>

OverlapNext == RangesOverlap

SpecOverlap == OverlapInit /\ [][OverlapNext]_vars

\* The values a cell of the column can hold: numbers around the literals
\* and two strings that are no numbers.
Cells == {Num(n) : n \in 0..3} \cup {Text(1), Text(2)}

\* A cell and a literal are comparable when both denote numbers (a number
\* or the string that writes one) or both are other strings.
Comparable(v, literal) == isNumeric(v) <=> isNumeric(literal)

\* The cell v satisfies the condition: SQL comparison, a cell never
\* satisfying a comparison with a literal of the other kind.
Satisfies(v, cond) ==
  LET Eq(literal) == Comparable(v, literal) /\ v.n = literal.n
      Lt(literal) == Comparable(v, literal) /\ v.n < literal.n
      Gt(literal) == Comparable(v, literal) /\ v.n > literal.n
  IN CASE cond.operator = "=" -> Eq(cond.value)
       [] cond.operator = ">" -> Gt(cond.value)
       [] cond.operator = ">=" -> Gt(cond.value) \/ Eq(cond.value)
       [] cond.operator = "<" -> Lt(cond.value)
       [] cond.operator = "<=" -> Lt(cond.value) \/ Eq(cond.value)
       [] cond.operator = "BETWEEN" ->
            /\ Gt(cond.value.items[1]) \/ Eq(cond.value.items[1])
            /\ Lt(cond.value.items[2]) \/ Eq(cond.value.items[2])
       [] cond.operator = "IN" ->
            \E i \in 1..Len(cond.value.items) : Eq(cond.value.items[i])

\* C29: rangesOverlap on two conditions on one column returns false only
\* if no value of the column satisfies both, and two equality conditions
\* overlap exactly when their values are equal.
C29_FalseOnlyIfDisjoint ==
  last.op = "rangesOverlap" =>
    /\ ~last.ret => \A v \in Cells : ~(Satisfies(v, last.c1) /\ Satisfies(v, last.c2))
    /\ (last.c1.operator = "=" /\ last.c2.operator = "=")
         => (last.ret <=> \E v \in Cells :
                            Satisfies(v, last.c1) /\ Satisfies(v, last.c2))

(***************************************************************************)
(* conditionsOverlap on the conditions of two WHERE clauses (specification *)
(* SpecConditions).                                                        *)
(***************************************************************************)
\* age = 1, age = 2, age > 1, age < 2, name = 1, name = 2
WhereConditions ==
  {Cond("age", "=", Num(1)), Cond("age", "=", Num(2)),
   Cond("age", ">", Num(1)), Cond("age", "<", Num(2)),
   Cond("name", "=", Num(1)), Cond("name", "=", Num(2))}

\* WHERE c, WHERE c AND d, WHERE c OR d.
Wheres ==
  {Where("AND", <<c>>) : c \in WhereConditions}
  \cup {Where(conn, <<c, d>>) :
          conn \in {"AND", "OR"}, c \in WhereConditions, d \in WhereConditions}

\* The WHERE of a cached query and the WHERE of a write are given.
ConditionsInit ==
  /\ StoreInit
  /\ appDb = {}
  /\ last \in [op : {"wheres"}, cache : Wheres, write : Wheres]

\* conditionsOverlap returns for the conditions parseConditionNode
\* extracts from the two clauses.
ConditionsOverlap ==
  /\ last.op = "wheres"
  /\ last' = [op |-> "conditionsOverlap", cache |-> last.cache,
              write |-> last.write,
              ret |-> conditionsOverlap(parseConditionNode(last.cache),
                                        parseConditionNode(last.write))]
  /\ UNCHANGED <<storeVars, appDb>>

ConditionsNext == ConditionsOverlap

SpecConditions == ConditionsInit /\ [][ConditionsNext]_vars

\* The rows of the table: a number in each of the two columns.
WhereRows == [age : 0..3, name : 0..3]

\* The row satisfies the WHERE clause: all of its conditions under AND,
\* one of them under OR.
RowSatisfies(row, where) ==
  IF where.conn = "AND"
    THEN \A i \in 1..Len(where.conds) :
           Satisfies(Num(row[where.conds[i].column]), where.conds[i])
    ELSE \E i \in 1..Len(where.conds) :
           Satisfies(Num(row[where.conds[i].column]), where.conds[i])

\* C30: conditionsOverlap returns false only if no row satisfies both the
\* cached query's WHERE and the write's WHERE, whether the clauses combine
\* their conditions with AND or with OR.
C30_FalseOnlyIfNoCommonRow ==
  (last.op = "conditionsOverlap" /\ ~last.ret)
    => \A row \in WhereRows :
         ~(RowSatisfies(row, last.cache) /\ RowSatisfies(row, last.write))

(***************************************************************************)
(* rowsOverlap on the affected rows of a write (specification SpecRows).   *)
(***************************************************************************)
\* id = v, age = v, id IN (1, 2), age IN (1, 2)
RowConditions ==
  {Cond(column, "=", Num(v)) : column \in {"id", "age"}, v \in Values}
  \cup {Cond(column, "IN", Arr(<<Num(1), Num(2)>>)) : column \in {"id", "age"}}

\* SELECT * | name FROM users WHERE condition
RowSelects ==
  {Select(<<Col(c)>>, <<From("users")>>, Where("AND", <<cond>>)) :
     c \in {"*", "name"}, cond \in RowConditions}

\* UPDATE users SET name = 1 WHERE condition, DELETE FROM users WHERE condition
RowWriteStatements ==
  {Update("users", <<Assign("name", 1)>>, Where("AND", <<cond>>)) :
     cond \in RowConditions}
  \cup {Delete("users", Where("AND", <<cond>>)) : cond \in RowConditions}

\* A cached SELECT and a write are given.
RowsInit ==
  /\ StoreInit
  /\ appDb = {}
  /\ last \in [op : {"statements"}, select : RowSelects, write : RowWriteStatements]

\* rowsOverlap(cacheKey, writeInfo.affectedRows) returns.
RowsOverlap ==
  /\ last.op = "statements"
  /\ LET cacheKey == analyzeSELECT(last.select)
         writeInfo == analyzeWrite(last.write)
     IN last' = [op |-> "rowsOverlap", cacheKey |-> cacheKey,
                 writeInfo |-> writeInfo,
                 ret |-> rowsOverlap(cacheKey, writeInfo.affectedRows)]
  /\ UNCHANGED <<storeVars, appDb>>

RowsNext == RowsOverlap

SpecRows == RowsInit /\ [][RowsNext]_vars

\* The strings of the values of the equality and IN conditions among conds.
SpecificStrings(conds) ==
  {String(c.value) : c \in {x \in conds : x.operator = "="}}
  \cup UNION {{String(c.value.items[j]) : j \in 1..Len(c.value.items)} :
                c \in {x \in conds : x.operator = "IN"}}

\* The columns of the equality and IN conditions among conds.
SpecificColumns(conds) == {c.column : c \in {x \in conds : x.operator \in {"=", "IN"}}}

\* C31: rowsOverlap answers false only when the write's row identifiers and
\* the cached equality/IN values are values of the same column and are
\* disjoint; affectedRows holds values of a row-identifier column (id,
\* uuid) only.
C31_FalseOnlySameColumnDisjoint ==
  last.op = "rowsOverlap" =>
    /\ ~last.ret =>
         /\ SpecificColumns(Range(last.writeInfo.conditions))
              = SpecificColumns(Range(last.cacheKey.tables[1].conditions))
         /\ SpecificStrings(Range(last.writeInfo.conditions))
              \cap SpecificStrings(Range(last.cacheKey.tables[1].conditions)) = {}
    /\ Range(last.writeInfo.affectedRows)
         = SpecificStrings({c \in Range(last.writeInfo.conditions) :
                              c.column \in {"id", "uuid"}})

(***************************************************************************)
(* An UPDATE of a column of the cached WHERE clause (SpecDecider).         *)
(***************************************************************************)
\* C32: an UPDATE on the table of a cached single-table query that modifies
\* a column of the query's WHERE conditions is decided true, whatever the
\* select list and the write's own WHERE clause.
C32_ModifiedWhereColumnMeansTrue ==
  (/\ UpdateOnSingleTable
   /\ \E c \in CachedConditions : SeqContains(DecidedWrite.modifiedColumns, c.column))
    => last.decision

(***************************************************************************)
(* register on the empty store (specification SpecRegister).               *)
(***************************************************************************)
\* id = v, id > v, age = v, id IN (1, 2)
RegisterConditions ==
  {Cond("id", "=", Num(v)) : v \in Values}
  \cup {Cond("id", ">", Num(v)) : v \in Values}
  \cup {Cond("age", "=", Num(v)) : v \in Values}
  \cup {Cond("id", "IN", Arr(<<Num(1), Num(2)>>))}

\* SELECT * FROM users [WHERE c [AND d]]
\* SELECT COUNT(*)
\* SELECT * FROM (SELECT id FROM users) t
RegisterSelects ==
  {Select(<<Col("*")>>, <<From("users")>>, NoWhere),
   Select(<<Aggr("COUNT", "*")>>, <<>>, NoWhere),
   [Select(<<Col("*")>>, <<Derived("t")>>, NoWhere) EXCEPT !.subquery = TRUE]}
  \cup {Select(<<Col("*")>>, <<From("users")>>, Where("AND", <<c>>)) :
          c \in RegisterConditions}
  \cup {Select(<<Col("*")>>, <<From("users")>>, Where("AND", <<c, d>>)) :
          c \in RegisterConditions, d \in RegisterConditions}

\* A SELECT has been analyzed; the store is empty.
RegisterInit ==
  /\ StoreInit
  /\ appDb = {}
  /\ last \in [op : {"analyzed"}, k : {analyzeSELECT(q) : q \in RegisterSelects}]

\* register(k.fingerprint, 1, k) commits.
RegisterOnce ==
  /\ last.op = "analyzed"
  /\ SetDb(register(CurrentDb, last.k.fingerprint, Num(1), last.k, 0).db)
  /\ last' = [op |-> "register", k |-> last.k]
  /\ UNCHANGED <<lruCache, appDb>>

RegisterNext == RegisterOnce

SpecRegister == RegisterInit /\ [][RegisterNext]_vars

\* The primary-key conditions of a table of the key: an equality or IN on
\* a column named id or uuid.
PKConditions(table) ==
  IF table.hasConditions THEN {c \in Range(table.conditions) : IsSimplePK(c)} ELSE {}

\* C33: after register(fp, x, k) has committed, every row_index row of fp
\* carries a value of a primary-key condition of its table, and a table
\* with one primary-key condition has exactly one row per value of it.
C33_RowIndexIsPrimaryKeyValues ==
  last.op = "register" =>
    \A i \in 1..Len(last.k.tables) :
      LET table == last.k.tables[i]
          rows == {r[2] : r \in {x \in row_index :
                                   x[1] = table.table /\ x[3] = last.k.fingerprint}}
      IN /\ rows \subseteq SpecificStrings(PKConditions(table))
         /\ Cardinality(PKConditions(table)) = 1
              => rows = SpecificStrings(PKConditions(table))

(***************************************************************************)
(* Further properties of the CacheManager (specification Spec).            *)
(***************************************************************************)
\* C34: get(fp) returns the result currently stored in cache_entries for
\* fp, or null when there is no row, whether the LRU or the database
\* answers.
C34_GetReturnsStored ==
  \A fp \in StoreFingerprints :
    GetRet(fp) = IF fp \in DOMAIN cache_entries THEN StoredResult(fp) ELSE Null

\* C35: the index rows carrying a stored fingerprint are exactly those
\* register derives from the cache key currently stored for it.
C35_IndexRowsOfStoredKey ==
  \A fp \in DOMAIN cache_entries :
    LET rows == IndexRowsOfKey(fp, StoredKey(fp))
    IN /\ TableRows(fp) = rows.table_index
       /\ RowRows(fp) = rows.row_index
       /\ ColumnRows(fp) = rows.column_index
       /\ AggregateRows(fp) = rows.aggregate_index

\* The writes and tables a later invalidate or clearTable may be called
\* with.
LaterWrites == StoreWrites \cup {analyzeWrite(w) : w \in RowWriteStatements}

\* C36: after register has committed, the entry has a table_index row, and
\* some invalidate or clearTable call removes it.
C36_EntryReachable ==
  last.op = "register" =>
    \A fp \in DOMAIN cache_entries :
      /\ TableRows(fp) # {}
      /\ \/ \E t \in StoreTables :
              fp \notin DOMAIN clearTable(CurrentDb, lruCache, t, 0).db.cache_entries
         \/ \E w \in LaterWrites :
              fp \notin DOMAIN invalidate(CurrentDb, lruCache, w, 0).db.cache_entries

\* The LRU entries of fp.
LruEntries(lru, fp) == {i \in 1..Len(lru) : lru[i].fp = fp}

LruResults(lru, fp) == {lru[i].result : i \in LruEntries(lru, fp)}

\* C37: clearTable(t) leaves untouched every cache entry, index row and
\* LRU entry whose fingerprint has no table_index row for t.
C37_ClearTableFrame ==
  [][\A t \in StoreTables :
       (last'.op = "clearTable" /\ last'.table = t)
       => \A fp \in StoreFingerprints :
            <<t, fp>> \notin table_index
            => /\ (fp \in DOMAIN cache_entries) = (fp \in DOMAIN cache_entries')
               /\ fp \in DOMAIN cache_entries
                    => cache_entries'[fp] = cache_entries[fp]
               /\ TableRows(fp)' = TableRows(fp)
               /\ RowRows(fp)' = RowRows(fp)
               /\ ColumnRows(fp)' = ColumnRows(fp)
               /\ AggregateRows(fp)' = AggregateRows(fp)
               /\ LruResults(lruCache, fp)' = LruResults(lruCache, fp)]_vars

\* clearTable("orders") has removed an entry while an entry that is not
\* filed under orders is still stored, with its index rows, and held in the
\* LRU.
C37_Witness ==
  /\ last.op = "clearTable"
  /\ last.table = "orders"
  /\ ~last.threw
  /\ last.ret = 1
  /\ \E fp \in DOMAIN cache_entries :
       /\ ColumnRows(fp) # {}
       /\ LruResults(lruCache, fp) # {}

\* C38: a get that reads its entry from the database while the LRU is full
\* evicts exactly the entry that has been in the LRU longest and keeps the
\* others in their order, the entry just inserted last.
C38_EvictsOldest ==
  [][\A fp \in StoreFingerprints :
       (/\ last'.op = "get"
        /\ last'.fp = fp
        /\ LruEntries(lruCache, fp) = {}
        /\ fp \in DOMAIN cache_entries
        /\ Len(lruCache) = LRU_MAX_SIZE)
       => /\ Len(lruCache') = LRU_MAX_SIZE
          /\ \A i \in 2..Len(lruCache) : lruCache'[i - 1] = lruCache[i]
          /\ lruCache'[LRU_MAX_SIZE] = [fp |-> fp, result |-> StoredResult(fp)]
          /\ LruEntries(lruCache', lruCache[1].fp) = {}]_vars

\* Every stored entry but one is in the full LRU, the one just read at its
\* end: the third entry a get has loaded.
C38_Witness ==
  /\ last.op = "get"
  /\ Cardinality(DOMAIN cache_entries) = LRU_MAX_SIZE + 1
  /\ Len(lruCache) = LRU_MAX_SIZE
  /\ lruCache[LRU_MAX_SIZE].fp = last.fp
  /\ \E fp \in DOMAIN cache_entries : LruEntries(lruCache, fp) = {}

====
